---- MODULE Spec2Model ----
(***************************************************************************)
(* Model of gonzo-pit-strategy: the training-run lifecycle (run_experiment *)
(* with GonzoExperimentCallback, ModelTrainer.train, and the earlier       *)
(* ModelTrainer.train under src/training) over the metadata store, and the *)
(* DataPipeline orchestrator over its step chain, checkpoint directory,    *)
(* artifact directory and dataset_versions table.                          *)
(***************************************************************************)
EXTENDS Integers, Sequences, FiniteSets, TLC

(***************************************************************************)
(* Bounds                                                                  *)
(***************************************************************************)
MaxInvocations == 2
MaxEpochs == 2
MaxSecond == 1
MaxPipelines == 2
MaxSteps == 2
MaxDate == 1
MaxRows == 2
MaxPredicts == 2
HashMod == 5

Invocations == 1..MaxInvocations
Pipelines == 1..MaxPipelines

(***************************************************************************)
(* Training lifecycle: state                                               *)
(***************************************************************************)
VARIABLES
    model_metadata,   \* table f1db.model_metadata, row i has model_id i
    training_runs,    \* table training_runs, row i has run_id i
    training_metrics, \* table f1db.training_metrics, rows in insertion order
    model_files,      \* model versions with a saved model file on disk
    inv,              \* one record per training invocation
    second            \* wall clock read by time.strftime("%Y%m%d_%H%M%S")

trainVars == <<model_metadata, training_runs, training_metrics, model_files, inv, second>>

(***************************************************************************)
(* Data pipeline: state                                                    *)
(***************************************************************************)
VARIABLES
    config,            \* the 'pipeline' object of the configuration file
    pipe,              \* one record per DataPipeline instance
    checkpoint_files,  \* files under checkpoint_dir: [path, df]
    artifact_files,    \* files under artifacts_dir: [version, file, content]
    dataset_versions,  \* table dataset_versions, rows in insertion order
    date,              \* the day datetime.now().strftime("%Y%m%d") reads
    now                \* the instant datetime.now() reads at a commit

pipeVars == <<config, pipe, checkpoint_files, artifact_files, dataset_versions, date, now>>

(***************************************************************************)
(* Artifact reload, inference pipeline and step registry: state            *)
(***************************************************************************)
VARIABLES
    artifact_dirs,         \* versions with a directory under artifacts_dir
    predictor,             \* the ModelPredictor and its own DataPipeline
    step_classes,          \* PipelineStep subclasses defined so far
    PipelineStep_registry  \* PipelineStep.registry: step name -> class

loadVars == <<artifact_dirs, predictor>>
registryVars == <<step_classes, PipelineStep_registry>>

(***************************************************************************)
(* Single step calls: state                                                *)
(***************************************************************************)
VARIABLES
    frame,      \* the table a step's process is called on
    step_call   \* the call of process: the instance and what it ended with

stepVars == <<frame, step_call>>

(***************************************************************************)
(* Configuration management: state                                         *)
(***************************************************************************)
VARIABLES
    config_files,    \* the files of the config directory: file name -> content
    Config_configs,  \* Config._configs: configuration name -> loaded mapping
    config_call      \* the last call of get_config and what it ended with

configVars == <<config_files, Config_configs, config_call>>
auxVars == <<stepVars, configVars>>
restVars == <<loadVars, registryVars, auxVars>>
vars == <<trainVars, pipeVars, restVars>>

None == 0
Unset == -1

Variants == {"runner", "trainer", "legacy"}

\* model.metrics_names of the compiled model: the loss first, then the metrics.
MetricsNames == { <<"loss">>, <<"loss", "mae">> }

\* A metric name is a sequence of tokens, so that a prefix is a sub-sequence.
Name(m) == <<m>>
ValName(m) == <<"val_", m>>

\* The logs Keras hands to on_epoch_end when validation_data is given:
\* one entry per metric and one "val_" entry per metric.
EpochLogs(names) ==
    [k \in 1..(2 * Len(names)) |->
        IF k <= Len(names) THEN Name(names[k]) ELSE ValName(names[k - Len(names)])]

StartsWith(s, p) == Len(p) <= Len(s) /\ SubSeq(s, 1, Len(p)) = p

\* A mapping that lists the empty default prefix first.
DefaultPrefixFirst ==
    << [prefix |-> <<>>,       split |-> "TRAIN"],
       [prefix |-> <<"val_">>, split |-> "VALIDATION"] >>

\* MetricsLoggingCallback.split_types, in dict order.
split_types ==
    << [prefix |-> <<"val_">>, split |-> "VALIDATION"],
       [prefix |-> <<>>,       split |-> "TRAIN"] >>

\* Index of the first split_types entry whose prefix the metric name starts with.
FirstPrefix(metric_name) ==
    CHOOSE k \in 1..Len(split_types) :
        /\ StartsWith(metric_name, split_types[k].prefix)
        /\ \A j \in 1..(k - 1) : ~StartsWith(metric_name, split_types[j].prefix)

\* One TrainingMetric row built in the loop of on_epoch_end.
EpochMetric(run_id, epoch, metric_name) ==
    LET e == split_types[FirstPrefix(metric_name)]
    IN  [run_id      |-> run_id,
         epoch       |-> epoch,
         metric_name |-> SubSeq(metric_name, Len(e.prefix) + 1, Len(metric_name)),
         split_type  |-> e.split]

\* The list `metrics` that on_epoch_end hands to session.add_all.
EpochBatch(run_id, epoch, logs) ==
    [k \in 1..Len(logs) |-> EpochMetric(run_id, epoch, logs[k])]

\* The list test_metrics_entries of ModelTrainer.train.
TestBatch(run_id, names) ==
    [k \in 1..Len(names) |->
        [run_id |-> run_id, epoch |-> -1, metric_name |-> Name(names[k]),
         split_type |-> "TEST"]]

\* A commit that flushes row by row and fails after the first row.
CommitRowByRow(table, rows, ok) ==
    IF ok THEN table \o rows ELSE table \o SubSeq(rows, 1, 1)

\* session.add_all(rows); session.commit() inside db_session: the rows become
\* visible together, or (database error, rollback) not at all.
CommitAll(table, rows, ok) == IF ok THEN table \o rows ELSE table

\* The count without .distinct(): one per metric row of the run.
CountEpochRows(run_id) ==
    Cardinality({ j \in 1..Len(training_metrics) : training_metrics[j].run_id = run_id })

\* session.query(TrainingMetric.epoch).filter_by(run_id=...).distinct().count()
DistinctEpochs(run_id) ==
    Cardinality({ training_metrics[k].epoch :
                    k \in { j \in 1..Len(training_metrics) :
                              training_metrics[j].run_id = run_id } })

\* uix_name_version on model_metadata: no second row with the same (name, version).
ModelNameVersionFree(name, version) ==
    \A k \in 1..Len(model_metadata) :
        ~(model_metadata[k].name = name /\ model_metadata[k].version = version)

\* The row ModelRepository.create_placeholder_model / save_model inserts.
ModelRow(name, version, tags) == [name |-> name, version |-> version, tags |-> tags]

\* The row of a TrainingRun inserted with the given status.
RunRow(model_id, status, end_time, epochs_completed) ==
    [model_id |-> model_id, status |-> status, end_time |-> end_time,
     epochs_completed |-> epochs_completed]

ModelName(variant) == IF variant = "runner" THEN "f1_pit_strategy_model.keras" ELSE "model.keras"

IdleInvocation ==
    [variant |-> "none", pc |-> "idle", model_version |-> <<>>, metrics_names |-> <<>>,
     epochs |-> 0, epochs_run |-> 0, stop_training |-> FALSE,
     model_id |-> None, run_id |-> None, error |-> "none", integrity_error |-> FALSE]

TrainInit ==
    /\ model_metadata = <<>>
    /\ training_runs = <<>>
    /\ training_metrics = <<>>
    /\ model_files = {}
    /\ inv = [i \in Invocations |-> IdleInvocation]
    /\ second = 0

SetInv(i, r) == inv' = [inv EXCEPT ![i] = r]

LoopFinished(i) == inv[i].epochs_run = inv[i].epochs \/ inv[i].stop_training

ModelFile(version) == <<version, "model">>
MetadataJson(version) == <<version, "model_metadata.json">>

(***************************************************************************)
(* Training lifecycle: operations                                          *)
(***************************************************************************)
\* Everything before model.fit: data loading, model building, the model version
\* "{type}_{timestamp}" and the callback list. The epoch budget is config.epochs;
\* EarlyStopping may end the loop after any epoch.
Start(i) ==
    /\ inv[i].pc = "idle"
    /\ \E variant \in Variants, names \in MetricsNames :
          SetInv(i, [inv[i] EXCEPT !.variant = variant,
                                   !.pc = IF variant = "legacy" THEN "fit_loop" ELSE "train_begin",
                                   !.model_version = <<"dense", second>>,
                                   !.metrics_names = names,
                                   !.epochs = MaxEpochs])
    /\ UNCHANGED <<model_metadata, training_runs, training_metrics, model_files, second, pipeVars, restVars>>

\* create_placeholder_model followed by the insert of the RUNNING TrainingRun:
\* two transactions. failAt = 1: the first fails, 2: the second fails, 3: neither.
CreatePlaceholderAndRun(i, failAt, tags) ==
    LET r == inv[i]
        name == ModelName(r.variant)
        modelOk == failAt > 1 /\ ModelNameVersionFree(name, r.model_version)
        runOk == modelOk /\ failAt > 2
    IN  /\ model_metadata' =
              IF modelOk THEN Append(model_metadata, ModelRow(name, r.model_version, tags))
              ELSE model_metadata
        /\ training_runs' =
              IF runOk
              THEN Append(training_runs, RunRow(Len(model_metadata) + 1, "RUNNING", Unset, 0))
              ELSE training_runs
        /\ SetInv(i, [r EXCEPT !.model_id = IF modelOk THEN Len(model_metadata) + 1 ELSE None,
                               !.run_id = IF runOk THEN Len(training_runs) + 1 ELSE None,
                               !.pc = IF runOk THEN "fit_loop" ELSE "raised",
                               !.integrity_error =
                                    failAt > 1 /\ ~ModelNameVersionFree(name, r.model_version),
                               !.error = IF runOk THEN "none"
                                         ELSE IF r.variant = "runner" THEN "fit" ELSE "before_fit"])
        /\ UNCHANGED <<training_metrics, model_files, second, pipeVars, restVars>>

\* GonzoExperimentCallback.on_train_begin, called by model.fit before the first epoch.
on_train_begin(i) ==
    /\ inv[i].pc = "train_begin"
    /\ inv[i].variant = "runner"
    /\ \E failAt \in 1..3 : CreatePlaceholderAndRun(i, failAt, "config")

\* ModelTrainer.train: placeholder model record and RUNNING run before model.fit.
train_create_placeholder(i) ==
    /\ inv[i].pc = "train_begin"
    /\ inv[i].variant = "trainer"
    /\ \E failAt \in 1..3 : CreatePlaceholderAndRun(i, failAt, "training_in_progress")

\* (inv[i].error records where an invocation raised: "before_fit", "fit", inside
\* the model.fit call, or "after_fit".)
\* One epoch of model.fit: the training step, then the epoch-end callbacks
\* (MetricsLoggingCallback.on_epoch_end, directly or through
\* GonzoExperimentCallback.on_epoch_end), then EarlyStopping's decision.
\* outcome 1: the training step raises; 2: the metrics commit fails; 3: neither.
Epoch(i) ==
    /\ inv[i].pc = "fit_loop"
    /\ ~LoopFinished(i)
    /\ \E outcome \in 1..3, stop \in BOOLEAN :
          LET r == inv[i]
              logs == EpochLogs(r.metrics_names)
              logged == r.variant # "legacy" /\ outcome > 1
          IN  /\ (r.variant = "legacy" => outcome # 2)
              /\ (outcome < 3 => ~stop)
              /\ training_metrics' =
                    IF logged
                    THEN CommitAll(training_metrics,
                                   EpochBatch(r.run_id, r.epochs_run, logs), outcome > 2)
                    ELSE training_metrics
              /\ SetInv(i, [r EXCEPT !.epochs_run = IF outcome > 1 THEN @ + 1 ELSE @,
                                     !.stop_training = stop,
                                     !.pc = IF outcome > 2 THEN "fit_loop" ELSE "raised",
                                     !.error = IF outcome > 2 THEN "none" ELSE "fit"])
    /\ UNCHANGED <<model_metadata, training_runs, model_files, second, pipeVars, restVars>>

\* ModelRepository.update_model: model.save, then the metadata row, then the JSON
\* file. done = number of its three writes that happened before it raised.
UpdateModelFiles(version, done) ==
    model_files \cup (IF done >= 1 THEN {ModelFile(version)} ELSE {})
                \cup (IF done >= 3 THEN {MetadataJson(version)} ELSE {})

UpdateModelRow(model_id, tags, done) ==
    IF done >= 2 /\ model_id \in 1..Len(model_metadata)
    THEN [model_metadata EXCEPT ![model_id] = [@ EXCEPT !.tags = tags]]
    ELSE model_metadata

\* The update without the filter_by(run_id=...): every run row is finalized.
FinalizeEveryRun(run_id, epochs_completed) ==
    [k \in 1..Len(training_runs) |->
        [training_runs[k] EXCEPT !.end_time = second, !.status = "COMPLETED",
                                 !.epochs_completed = epochs_completed]]

\* The update of the run row at train end.
FinalizeRun(run_id, epochs_completed) ==
    [training_runs EXCEPT ![run_id] =
        [@ EXCEPT !.end_time = second, !.status = "COMPLETED",
                  !.epochs_completed = epochs_completed]]

\* GonzoExperimentCallback.on_train_end, called by model.fit after the last epoch:
\* the run update is committed first, update_model comes after it.
\* failAt = 1: the run commit fails; 2..4: update_model raises at its first,
\* second, third write; 5: nothing fails.
on_train_end(i) ==
    /\ inv[i].pc = "fit_loop"
    /\ inv[i].variant = "runner"
    /\ LoopFinished(i)
    /\ \E failAt \in 1..5 :
          LET r == inv[i]
              done == failAt - 2
          IN  /\ training_runs' =
                    IF failAt > 1 THEN FinalizeRun(r.run_id, DistinctEpochs(r.run_id))
                    ELSE training_runs
              /\ model_files' = UpdateModelFiles(r.model_version, done)
              /\ model_metadata' = UpdateModelRow(r.model_id, "final", done)
              /\ SetInv(i, [r EXCEPT !.pc = IF failAt = 5 THEN "evaluate" ELSE "raised",
                                     !.error = IF failAt = 5 THEN "none" ELSE "fit"])
    /\ UNCHANGED <<training_metrics, second, pipeVars, restVars>>

\* run_experiment after model.fit: model.evaluate and the ExperimentResult.
run_experiment_evaluate(i) ==
    /\ inv[i].pc = "evaluate"
    /\ inv[i].variant = "runner"
    /\ \E ok \in BOOLEAN :
          SetInv(i, [inv[i] EXCEPT !.pc = IF ok THEN "returned" ELSE "raised",
                                   !.error = IF ok THEN "none" ELSE "after_fit"])
    /\ UNCHANGED <<model_metadata, training_runs, training_metrics, model_files, second, pipeVars, restVars>>

\* ModelTrainer.train after model.fit: model.evaluate, update_model, the run
\* update (commit) and the test metrics (second commit of the same session).
\* failAt = 1: evaluate raises; 2..4: update_model raises at its first, second,
\* third write; 5: the run commit fails; 6: the test-metrics commit fails; 7: none.
train_finish(i) ==
    /\ inv[i].pc = "fit_loop"
    /\ inv[i].variant = "trainer"
    /\ LoopFinished(i)
    /\ \E failAt \in 1..7 :
          LET r == inv[i]
              done == IF failAt > 4 THEN 3 ELSE failAt - 2
          IN  /\ model_files' = UpdateModelFiles(r.model_version, done)
              /\ model_metadata' = UpdateModelRow(r.model_id, "final", done)
              /\ training_runs' =
                    IF failAt > 5 THEN FinalizeRun(r.run_id, r.epochs_run)
                    ELSE training_runs
              /\ training_metrics' =
                    CommitAll(training_metrics, TestBatch(r.run_id, r.metrics_names),
                              failAt > 6)
              /\ SetInv(i, [r EXCEPT !.pc = IF failAt = 7 THEN "returned" ELSE "raised",
                                     !.error = IF failAt = 7 THEN "none" ELSE "after_fit"])
    /\ UNCHANGED <<second, pipeVars, restVars>>

\* The earlier ModelTrainer.train (src/training/trainer.py) after model.fit:
\* model.evaluate, ModelRepository.save_model (model file, metadata row, JSON
\* file), then a TrainingRun inserted as COMPLETED and the test metrics.
\* failAt = 1: evaluate raises; 2..4: save_model raises at its first, second,
\* third write; 5: the run insert fails; 6: the test-metrics commit fails; 7: none.
legacy_train_finish(i) ==
    /\ inv[i].pc = "fit_loop"
    /\ inv[i].variant = "legacy"
    /\ LoopFinished(i)
    /\ \E failAt \in 1..7 :
          LET r == inv[i]
              name == ModelName(r.variant)
              fileOk == failAt > 2
              rowOk == failAt > 3 /\ ModelNameVersionFree(name, r.model_version)
              jsonOk == rowOk /\ failAt > 4
              runOk == jsonOk /\ failAt > 5
              testOk == runOk /\ failAt > 6
          IN  /\ model_files' = model_files
                    \cup (IF fileOk THEN {ModelFile(r.model_version)} ELSE {})
                    \cup (IF jsonOk THEN {MetadataJson(r.model_version)} ELSE {})
              /\ model_metadata' =
                    IF rowOk THEN Append(model_metadata, ModelRow(name, r.model_version, "final"))
                    ELSE model_metadata
              /\ training_runs' =
                    IF runOk
                    THEN Append(training_runs,
                                RunRow(Len(model_metadata) + 1, "COMPLETED", second, r.epochs_run))
                    ELSE training_runs
              /\ training_metrics' =
                    CommitAll(training_metrics,
                              TestBatch(Len(training_runs) + 1, r.metrics_names), testOk)
              /\ SetInv(i, [r EXCEPT !.model_id = IF rowOk THEN Len(model_metadata) + 1 ELSE None,
                                     !.run_id = IF runOk THEN Len(training_runs) + 1 ELSE None,
                                     !.pc = IF testOk THEN "returned" ELSE "raised",
                                     !.integrity_error =
                                        failAt > 3 /\ ~ModelNameVersionFree(name, r.model_version),
                                     !.error = IF testOk THEN "none" ELSE "after_fit"])
    /\ UNCHANGED <<second, pipeVars, restVars>>

\* The process of an invocation is terminated (no cancellation primitive exists).
Crash(i) ==
    /\ inv[i].pc \in {"train_begin", "fit_loop", "evaluate"}
    /\ SetInv(i, [inv[i] EXCEPT !.pc = "crashed"])
    /\ UNCHANGED <<model_metadata, training_runs, training_metrics, model_files, second, pipeVars, restVars>>

\* The wall clock advances by one second.
Tick ==
    /\ second < MaxSecond
    /\ second' = second + 1
    /\ UNCHANGED <<model_metadata, training_runs, training_metrics, model_files, inv, pipeVars, restVars>>

TrainNext ==
    \/ Tick
    \/ \E i \in Invocations :
          \/ Start(i)
          \/ on_train_begin(i)
          \/ train_create_placeholder(i)
          \/ Epoch(i)
          \/ on_train_end(i)
          \/ run_experiment_evaluate(i)
          \/ train_finish(i)
          \/ legacy_train_finish(i)
          \/ Crash(i)


(***************************************************************************)
(* Data pipeline: configuration and registry                               *)
(***************************************************************************)
\* PipelineStep.registry: step_name -> class, filled by __init_subclass__.
registry ==
    [n \in {"null_value_cleaner", "data_type_converter", "categorical_encoder",
            "label_encoder", "numerical_scaler", "season_progress",
            "qualifying_time_converter", "lagged_feature_generator",
            "z_score_clipper", "drop_columns"} |->
        CASE n = "null_value_cleaner" -> "NullValueCleaner"
          [] n = "data_type_converter" -> "DataTypeConverter"
          [] n = "categorical_encoder" -> "CategoricalEncoder"
          [] n = "label_encoder" -> "LabelEncoderStep"
          [] n = "numerical_scaler" -> "NumericalScaler"
          [] n = "season_progress" -> "SeasonProgress"
          [] n = "qualifying_time_converter" -> "QualifyingTimeConverter"
          [] n = "lagged_feature_generator" -> "LaggedFeatureGenerator"
          [] n = "z_score_clipper" -> "ZScoreClipper"
          [] n = "drop_columns" -> "DropColumns"]

\* The entries a 'steps' list is drawn from: four known enabled steps, an
\* unknown step type, and a disabled entry.
StepEntries ==
    { [name |-> "qualifying_time_converter", enabled |-> TRUE],
      [name |-> "numerical_scaler", enabled |-> TRUE],
      [name |-> "lagged_feature_generator", enabled |-> TRUE],
      [name |-> "drop_columns", enabled |-> TRUE],
      [name |-> "moving_average", enabled |-> TRUE],
      [name |-> "drop_columns", enabled |-> FALSE] }

\* A 'steps' list of MaxSteps entries; skipped entries make the chain shorter.
StepLists == [1..MaxSteps -> StepEntries]

\* checkpoint_format "xml" is none of the formats process writes.
Configs ==
    { c \in [steps : StepLists, save_checkpoints : BOOLEAN,
             checkpoint_format : {"tsv", "xml"}] :
        ~c.save_checkpoints => c.checkpoint_format = "tsv" }

\* An initialization that looks every entry up, whether enabled or not.
InitStepsIgnoringEnabled(step_configs) ==
    LET kept == SelectSeq(step_configs, LAMBDA e : e.name \in DOMAIN PipelineStep_registry)
    IN  [k \in 1..Len(kept) |-> [step_name |-> kept[k].name, name |-> PipelineStep_registry[kept[k].name]]]

\* DataPipeline._init_steps: one instance per enabled entry whose name is in
\* the registry, in configuration order.
_init_steps(step_configs) ==
    LET kept == SelectSeq(step_configs,
                          LAMBDA e : e.enabled /\ e.name \in DOMAIN PipelineStep_registry)
    IN  [k \in 1..Len(kept) |-> [step_name |-> kept[k].name, name |-> PipelineStep_registry[kept[k].name]]]

\* The names _init_steps tests against the registry, in order: those of the
\* enabled entries (a disabled entry takes the `continue` before the test).
_init_steps_lookups(step_configs) ==
    LET enabled == SelectSeq(step_configs, LAMBDA e : e.enabled)
    IN  [k \in 1..Len(enabled) |-> enabled[k].name]

\* The names _init_steps warns about: "Unknown step type: {name}, skipping".
_init_steps_warnings(step_configs) ==
    { step_configs[k].name : k \in { j \in 1..Len(step_configs) :
            step_configs[j].enabled /\ step_configs[j].name \notin DOMAIN PipelineStep_registry } }

(***************************************************************************)
(* Tables: ordered columns, each with a dtype and a content value          *)
(***************************************************************************)
HasColumn(df, c) == \E k \in 1..Len(df.columns) : df.columns[k] = c

\* df[c] = ...: overwrite the column, or append it after the existing ones.
SetColumn(df, c, dtype, value) ==
    [df EXCEPT !.columns = IF HasColumn(df, c) THEN @ ELSE Append(@, c),
               !.dtypes = (c :> dtype) @@ @,
               !.values = (c :> value) @@ @]

\* df.drop(columns=[c])
DropColumn(df, c) ==
    [df EXCEPT !.columns = SelectSeq(@, LAMBDA x : x # c),
               !.dtypes = [x \in (DOMAIN @) \ {c} |-> @[x]],
               !.values = [x \in (DOMAIN @) \ {c} |-> @[x]]]

\* The contents the data source can hold: 1 has parsable qualifying times, 2
\* has a q1 value that does not match the format, 3 has "0:00.000" in every row.
Sources == {1, 2, 3}
Years == {None}

\* F1DataRepository.get_all_race_history(year): the table the data source
\* returns for its current content src, all seasons or one.
RawData(src, year) ==
    [columns |-> <<"roundnumber", "q1", "points">>,
     dtypes |-> [c \in {"roundnumber", "q1", "points"} |->
                    IF c = "q1" THEN "str" ELSE "num"],
     values |-> [c \in {"roundnumber", "q1", "points"} |->
                    CASE c = "roundnumber" -> 3
                      [] c = "q1" -> src
                      [] c = "points" -> src + 5],
     rows |-> IF year = None THEN 4 ELSE 2]

\* pd.to_datetime(df[col], format='%M:%S.%f') raises ValueError when a value of
\* the column does not match the format: content 2 holds such a value.
Parsable(value) == value # 2

\* Every value of the column is the zero time "0:00.000".
AllZeroTime(value) == value = 3

\* QualifyingTimeConverter.process with the default columns q1, q2, q3.
QualifyingTimeConverter_process(df) ==
    IF ~HasColumn(df, "q1") THEN df
    ELSE LET v == df.values["q1"]
             marked == SetColumn(df, "q1_missing", "num", 10 + v)
         IN  IF df.dtypes["q1"] = "str" /\ ~Parsable(v) THEN marked
             ELSE SetColumn(SetColumn(marked, "q1", "datetime", v),
                            "q1_seconds", "num", IF AllZeroTime(v) THEN 0 ELSE 20 + v)

\* scaler_class().fit_transform(X): a column of zeros has mean 0 and scale 1
\* and is returned as it is (content 0); any other column changes.
fit_transform(value) == IF value = 0 THEN 0 ELSE 40 + value

\* NumericalScaler.process with columns ["q1_seconds", "points"]: every listed
\* column that exists and is numeric is replaced by its scaled values.
ScalerColumns == <<"q1_seconds", "points">>
ScaleOne(df, c) ==
    IF HasColumn(df, c) /\ df.dtypes[c] = "num"
    THEN SetColumn(df, c, "num", fit_transform(df.values[c]))
    ELSE df
NumericalScaler_process(df) == ScaleOne(ScaleOne(df, ScalerColumns[1]), ScalerColumns[2])

\* The scalers NumericalScaler.process fits: one per scaled column.
NumericalScaler_fit(df) ==
    { <<c, df.values[c]>> : c \in { x \in {ScalerColumns[1], ScalerColumns[2]} :
                                      HasColumn(df, x) /\ df.dtypes[x] = "num" } }

\* LaggedFeatureGenerator.process with lag_columns ["q1_seconds"],
\* group_columns ["roundnumber"]: raises KeyError when a column is missing.
LaggedFeatureGenerator_raises(df) ==
    ~HasColumn(df, "q1_seconds") \/ ~HasColumn(df, "roundnumber")
LaggedFeatureGenerator_process(df) ==
    DropColumn(SetColumn(df, "lagged_q1_seconds", "num", 60 + df.values["q1_seconds"]),
               "q1_seconds")

\* DropColumns.process with columns ["q1"].
DropColumns_process(df) == IF HasColumn(df, "q1") THEN DropColumn(df, "q1") ELSE df

\* CategoricalEncoder.process with columns ["q1"], drop_original: a fresh
\* OneHotEncoder is fitted on the column at every call, its feature columns
\* are appended and the original column is dropped.
CategoricalEncoder_process(df) ==
    IF ~HasColumn(df, "q1") THEN df
    ELSE DropColumn(SetColumn(df, "q1_onehot", "num", 70 + df.values["q1"]), "q1")

\* The encoders CategoricalEncoder.process fits: one per encoded column.
CategoricalEncoder_fit(df) ==
    IF HasColumn(df, "q1") THEN { <<"q1", df.values["q1"]>> } ELSE {}

\* LabelEncoderStep.process with columns ["q1"], drop_original: a fresh
\* LabelEncoder is fitted on the column at every call and the column is
\* replaced by its codes.
LabelEncoderStep_process(df) ==
    IF ~HasColumn(df, "q1") THEN df
    ELSE SetColumn(df, "q1", "num", 80 + df.values["q1"])

LabelEncoderStep_fit(df) ==
    IF HasColumn(df, "q1") THEN { <<"q1", df.values["q1"]>> } ELSE {}

\* The steps that keep fitted state and override save and load.
StatefulSteps == {"categorical_encoder", "label_encoder", "numerical_scaler"}

\* The fitted objects a step's process stores on the instance.
StepFit(step, df) ==
    CASE step.step_name = "numerical_scaler" -> NumericalScaler_fit(df)
      [] step.step_name = "categorical_encoder" -> CategoricalEncoder_fit(df)
      [] step.step_name = "label_encoder" -> LabelEncoderStep_fit(df)
      [] OTHER -> {}

StepRaises(step, df) ==
    step.step_name = "lagged_feature_generator" /\ LaggedFeatureGenerator_raises(df)

\* step.process(df)
StepProcess(step, df) ==
    CASE step.step_name = "qualifying_time_converter" -> QualifyingTimeConverter_process(df)
      [] step.step_name = "numerical_scaler" -> NumericalScaler_process(df)
      [] step.step_name = "lagged_feature_generator" -> LaggedFeatureGenerator_process(df)
      [] step.step_name = "drop_columns" -> DropColumns_process(df)
      [] step.step_name = "categorical_encoder" -> CategoricalEncoder_process(df)
      [] step.step_name = "label_encoder" -> LabelEncoderStep_process(df)
      [] OTHER -> df

\* A process that fits on the first call only: an instance that has processed
\* before transforms with the objects it holds.
FitOnFirstCall(step, state, calls, df) ==
    IF calls > 0 /\ state # {} /\ step.step_name \in StatefulSteps
    THEN [df EXCEPT !.values = [c \in DOMAIN @ |->
                IF \E sv \in state : sv[1] = c
                THEN 90 + (CHOOSE sv \in state : sv[1] = c)[2] ELSE @[c]]]
    ELSE StepProcess(step, df)

\* step.process(df) on an instance that holds the fitted objects `state` after
\* `calls` earlier calls: the encoders and the scaler construct and fit new
\* objects at every call, so the output is that of a first call.
InstanceProcess(step, state, calls, df) == StepProcess(step, df)

\* PipelineStep.get_description: "{class name}: {config}".
get_description(step) == <<step.name, step.step_name>>

\* A code for a column name, as it appears in df.to_string().
NameCode(c) ==
    CASE c = "roundnumber" -> 1
      [] c = "q1" -> 2
      [] c = "points" -> 3
      [] c = "q1_missing" -> 4
      [] c = "q1_seconds" -> 5
      [] c = "lagged_q1_seconds" -> 6
      [] OTHER -> 7

RECURSIVE SumColumns(_, _)
SumColumns(df, k) ==
    IF k = 0 THEN 0
    ELSE SumColumns(df, k - 1)
            + k * (NameCode(df.columns[k]) + df.values[df.columns[k]])

\* A digest that also covers the instant it is computed at.
HashWithClock(df) == (SumColumns(df, Len(df.columns)) + df.rows + now) % HashMod

\* DataPipeline._compute_data_hash: a truncated digest of df.to_string().
_compute_data_hash(df) == (SumColumns(df, Len(df.columns)) + df.rows) % HashMod

\* process(save_version=None): no explicit version.
NoVersion == "none"
SaveVersions == {NoVersion, "v1"}

\* A timestamp prefix with the time of day in it ("%Y%m%d%H%M").
VersionTimestampWithTime == <<date, now>>

\* The timestamp prefix of a generated version: the day.
VersionTimestamp == date

\* The version process saves under: the explicit one, or "{date}_{hash}".
SaveVersion(save_version, df) ==
    IF save_version = NoVersion THEN <<VersionTimestamp, _compute_data_hash(df)>>
    ELSE <<save_version>>

DatasetName(year) == <<"f1_race_data", year>>

\* DataPipeline._generate_checkpoint_path
_generate_checkpoint_path(dataset_name, version, format) == <<dataset_name, version, format>>

\* A writer that has a branch for every format it is configured with.
EveryFormatWritten == {"tsv", "csv", "parquet", "xml"}

\* The checkpoint formats process has a branch for; any other takes the
\* `else` that logs "Unsupported checkpoint format".
SupportedFormats == {"tsv", "csv", "parquet"}

\* A table without the unique constraint.
NoUniqueConstraint(dataset_name, version) == TRUE

\* uix_dataset_name_version: no row with this (dataset_name, version) yet.
DatasetVersionFree(dataset_name, version) ==
    \A k \in 1..Len(dataset_versions) :
        ~(dataset_versions[k].dataset_name = dataset_name
            /\ dataset_versions[k].version = version)

\* session.query(DatasetVersion).filter_by(dataset_name, version).first()
ExistingVersion(dataset_name, version) ==
    IF \A k \in 1..Len(dataset_versions) :
          ~(dataset_versions[k].dataset_name = dataset_name
              /\ dataset_versions[k].version = version)
    THEN None
    ELSE CHOOSE k \in 1..Len(dataset_versions) :
            /\ dataset_versions[k].dataset_name = dataset_name
            /\ dataset_versions[k].version = version
            /\ \A j \in 1..(k - 1) :
                  ~(dataset_versions[j].dataset_name = dataset_name
                      /\ dataset_versions[j].version = version)

NewPipeline ==
    [pc |-> "new", steps |-> <<>>, fitted |-> <<>>, year |-> None, save_version |-> NoVersion,
     src |-> 0, k |-> 0, df |-> <<>>, steps_applied |-> <<>>, calls |-> <<>>,
     step_raised |-> FALSE, writes |-> {}, version |-> <<>>, file_path |-> <<>>,
     existing |-> None, new_row |-> <<>>, date_used |-> 0, saved_at |-> 0, error |-> "none",
     lookups |-> <<>>, warnings |-> {}, self_version |-> <<>>, trainer_data_version |-> <<>>]

PipeIdle ==
    /\ pipe = [p \in Pipelines |-> NewPipeline]
    /\ checkpoint_files = {}
    /\ artifact_files = {}
    /\ dataset_versions = <<>>
    /\ date = 0
    /\ now = 0

PipeInit ==
    /\ config \in Configs
    /\ PipeIdle

SetPipe(p, r) == pipe' = [pipe EXCEPT ![p] = r]

(***************************************************************************)
(* Data pipeline: operations                                               *)
(***************************************************************************)
\* self.version = self.config.get('version', '0.1.0'), for a configuration
\* without the key 'version'.
DataPipeline_version == <<"0.1.0">>

\* DataPipeline.__init__: reads the configuration and initializes the steps.
DataPipeline_init(p) ==
    /\ pipe[p].pc = "new"
    /\ LET steps == _init_steps(config.steps)
       IN  SetPipe(p, [pipe[p] EXCEPT !.pc = "ready",
                                      !.self_version = DataPipeline_version,
                                      !.steps = steps,
                                      !.fitted = [k \in 1..Len(steps) |-> {}],
                                      !.lookups = _init_steps_lookups(config.steps),
                                      !.warnings = { <<"unknown_step", n>> :
                                                       n \in _init_steps_warnings(config.steps) }])
    /\ UNCHANGED <<config, checkpoint_files, artifact_files, dataset_versions, date, now, trainVars, restVars>>

\* process(year, save_version), up to the step loop: fetches the raw table.
process_fetch(p) ==
    /\ pipe[p].pc = "ready"
    /\ \E year \in Years, save_version \in SaveVersions, src \in Sources :
          SetPipe(p, [pipe[p] EXCEPT !.pc = "steps",
                                     !.year = year,
                                     !.save_version = save_version,
                                     !.src = src,
                                     !.df = RawData(src, year),
                                     !.k = 1])
    /\ UNCHANGED <<config, checkpoint_files, artifact_files, dataset_versions, date, now, trainVars, restVars>>

\* A loop that walks the step list from its end.
ReversedLoopStep(steps, k) == Len(steps) + 1 - k

\* A loop that runs the scaler steps before the other steps, each group in
\* configuration order.
ScalersFirstLoopStep(steps, k) ==
    LET scalers == { j \in 1..Len(steps) : steps[j].step_name = "numerical_scaler" }
        others == (1..Len(steps)) \ scalers
        nth(S, n) == CHOOSE j \in S : Cardinality({ i \in S : i < j }) = n - 1
    IN  IF k <= Cardinality(scalers) THEN nth(scalers, k)
        ELSE nth(others, k - Cardinality(scalers))

\* The step the loop `for step in self.steps` runs in its k-th iteration.
LoopStep(steps, k) == k

\* A loop that logs a step's exception and goes on with the next step.
SkipFailedStep(r) == [r EXCEPT !.step_raised = TRUE, !.k = @ + 1]

\* A step's process raised: the exception leaves the loop and process.
StepFailure(r) == [r EXCEPT !.pc = "raised", !.error = "step", !.step_raised = TRUE]

\* self.scalers[col] = scaler, self.encoders[col] = encoder: the object fitted
\* for a column replaces the one held for it; the others stay.
UpdateFitted(state, fit) ==
    { sv \in state : \A nv \in fit : nv[1] # sv[1] } \cup fit

\* One iteration of the step loop of process: df = step.process(df), then the
\* step's description is appended to steps_applied.
process_step(p) ==
    /\ pipe[p].pc = "steps"
    /\ pipe[p].k <= Len(pipe[p].steps)
    /\ LET r == pipe[p]
           at == LoopStep(r.steps, r.k)
           step == r.steps[at]
           out == InstanceProcess(step, r.fitted[at], 0, r.df)
       IN  IF StepRaises(step, r.df)
           THEN SetPipe(p, StepFailure(r))
           ELSE SetPipe(p, [r EXCEPT
                   !.df = out,
                   !.fitted = [@ EXCEPT ![at] = UpdateFitted(@, StepFit(step, r.df))],
                   !.calls = Append(@, [step |-> step, in |-> r.df, out |-> out]),
                   !.steps_applied = Append(@, get_description(step)),
                   !.k = @ + 1])
    /\ UNCHANGED <<config, checkpoint_files, artifact_files, dataset_versions, date, now, trainVars, restVars>>

\* The files step.save writes under the artifacts path: NumericalScaler pickles
\* its scalers, the other steps of the chain write nothing.
ArtifactFileNames(step_name) ==
    CASE step_name = "numerical_scaler" -> <<"numerical_scalers.pkl">>
      [] step_name = "categorical_encoder" ->
            <<"categorical_encoders.pkl", "encoder_column_mapping.pkl">>
      [] step_name = "label_encoder" ->
            <<"label_encoders.pkl", "label_encoder_classes.pkl", "label_encoder_config.pkl">>
      [] OTHER -> <<>>

\* The files the loop `for step in self.steps: step.save(path)` leaves: each
\* stateful step pickles its fitted objects, the other steps write nothing, and
\* a later step of the same type overwrites the files of an earlier one.
StepArtifacts(r, version) ==
    LET last == { j \in 1..Len(r.steps) :
                    \A i \in (j + 1)..Len(r.steps) :
                        r.steps[i].step_name # r.steps[j].step_name }
        written == { kn \in last \X (1..3) :
                        kn[2] <= Len(ArtifactFileNames(r.steps[kn[1]].step_name)) }
    IN  { [version |-> version,
           file |-> ArtifactFileNames(r.steps[kn[1]].step_name)[kn[2]],
           content |-> r.fitted[kn[1]]] : kn \in written }

\* A manifest that lists the steps last to first.
ManifestReversed(r, version) ==
    [version |-> version, file |-> "manifest.json",
     content |-> [k \in 1..Len(r.steps) |-> r.steps[Len(r.steps) + 1 - k].name]]

\* The manifest _save_artifacts writes: "steps": [step.name for step in self.steps].
Manifest(r, version) ==
    [version |-> version, file |-> "manifest.json",
     content |-> [k \in 1..Len(r.steps) |-> r.steps[k].name]]

WriteFiles(files, new) ==
    { f \in files : \A n \in new : ~(n.version = f.version /\ n.file = f.file) } \cup new

\* process after the step loop: the version, the checkpoint file, _save_artifacts
\* (the steps' artifacts, then the manifest), and the query of
\* _save_dataset_version for an existing row. failAt = 1: the checkpoint write
\* raises; 2: a step's save raises; 3: the manifest write raises; 4: none.
process_persist(p) ==
    /\ pipe[p].pc = "steps"
    /\ pipe[p].k > Len(pipe[p].steps)
    /\ \E failAt \in 1..4 :
          LET r == pipe[p]
              version == SaveVersion(r.save_version, r.df)
              dataset_name == DatasetName(r.year)
              path == _generate_checkpoint_path(dataset_name, version, config.checkpoint_format)
              file_path == IF config.save_checkpoints THEN path ELSE <<>>
              written == config.save_checkpoints /\ failAt > 1
                            /\ config.checkpoint_format \in SupportedFormats
              artifacts == failAt > 2
              manifest == failAt > 3
          IN  /\ (failAt = 1 => config.save_checkpoints
                                  /\ config.checkpoint_format \in SupportedFormats)
              /\ (failAt = 2 => StepArtifacts(r, version) # {})
              /\ checkpoint_files' =
                    IF written
                    THEN { f \in checkpoint_files : f.path # path } \cup {[path |-> path, df |-> r.df]}
                    ELSE checkpoint_files
              /\ artifact_files' =
                    WriteFiles(artifact_files,
                               (IF artifacts THEN StepArtifacts(r, version) ELSE {})
                                  \cup (IF manifest THEN {Manifest(r, version)} ELSE {}))
              /\ artifact_dirs' = IF failAt > 1 THEN artifact_dirs \cup {version}
                                   ELSE artifact_dirs
              /\ SetPipe(p, [r EXCEPT
                    !.pc = IF manifest THEN "commit" ELSE "raised",
                    !.warnings = IF config.save_checkpoints /\ failAt > 1
                                    /\ config.checkpoint_format \notin SupportedFormats
                                 THEN @ \cup { <<"unsupported_format", config.checkpoint_format>> }
                                 ELSE @,
                    !.error = CASE failAt = 1 -> "checkpoint"
                                [] failAt = 2 -> "artifact"
                                [] failAt = 3 -> "manifest"
                                [] OTHER -> "none",
                    !.version = version,
                    !.date_used = date,
                    !.file_path = file_path,
                    !.existing = IF manifest THEN ExistingVersion(dataset_name, version) ELSE None,
                    !.writes = @ \cup (IF written THEN {"checkpoint"} ELSE {})
                                 \cup (IF artifacts /\ StepArtifacts(r, version) # {}
                                       THEN {"artifact"} ELSE {})
                                 \cup (IF manifest THEN {"manifest"} ELSE {})])
    /\ UNCHANGED <<config, dataset_versions, date, now, trainVars, predictor, registryVars, auxVars>>

\* The DatasetVersion values _save_dataset_version writes.
VersionRow(r) ==
    [dataset_name |-> DatasetName(r.year), version |-> r.version, created_at |-> now + 1,
     data_path |-> r.file_path, record_count |-> r.df.rows,
     feature_count |-> Len(r.df.columns), preprocessing_steps |-> r.steps_applied]

\* _save_dataset_version from the query on: the existing row is updated, or a
\* new row is added, and db_session commits; an insert that violates
\* uix_dataset_name_version is rolled back and raises.
save_dataset_version_commit(p) ==
    /\ pipe[p].pc = "commit"
    /\ \E ok \in BOOLEAN :
          LET r == pipe[p]
              row == VersionRow(r)
              insert == r.existing = None
              done == ok /\ (insert => DatasetVersionFree(row.dataset_name, row.version))
          IN  /\ dataset_versions' =
                    IF ~done THEN dataset_versions
                    ELSE IF insert THEN Append(dataset_versions, row)
                    ELSE [dataset_versions EXCEPT ![r.existing] = row]
              /\ now' = IF done THEN now + 1 ELSE now
              /\ SetPipe(p, [r EXCEPT !.pc = IF done THEN "done" ELSE "raised",
                                      !.error = IF done THEN "none" ELSE "commit",
                                      !.saved_at = IF done THEN now + 1 ELSE @,
                                      !.writes = IF done THEN @ \cup {"record"} ELSE @])
    /\ UNCHANGED <<config, checkpoint_files, artifact_files, date, trainVars, restVars>>

\* self.config['data_version'] = self.data_pipeline.version
StoreDataVersion(r) == r.self_version

\* ModelTrainer._prepare_data without a configured data_version, after its
\* call self.data_pipeline.process() returned: the data version is stored in
\* the training configuration, from where it goes into the model's metadata.
prepare_data_store_version(p) ==
    /\ pipe[p].pc = "done"
    /\ pipe[p].year = None
    /\ pipe[p].save_version = NoVersion
    /\ pipe[p].trainer_data_version = <<>>
    /\ SetPipe(p, [pipe[p] EXCEPT !.trainer_data_version = StoreDataVersion(pipe[p])])
    /\ UNCHANGED <<config, checkpoint_files, artifact_files, dataset_versions, date, now, trainVars, restVars>>

\* Midnight passes.
NextDay ==
    /\ date < MaxDate
    /\ date' = date + 1
    /\ UNCHANGED <<config, pipe, checkpoint_files, artifact_files, dataset_versions, now, trainVars, restVars>>

PipeNext ==
    \/ NextDay
    \/ \E p \in Pipelines :
          \/ DataPipeline_init(p)
          \/ process_fetch(p)
          \/ process_step(p)
          \/ process_persist(p)
          \/ save_dataset_version_commit(p)
          \/ prepare_data_store_version(p)


(***************************************************************************)
(* Artifact and checkpoint reload                                          *)
(***************************************************************************)
\* The entries the configurations of the reload scenario are drawn from: the
\* three stateful steps and one stateless step.
LoadStepEntries ==
    { [name |-> "categorical_encoder", enabled |-> TRUE],
      [name |-> "label_encoder", enabled |-> TRUE],
      [name |-> "numerical_scaler", enabled |-> TRUE],
      [name |-> "qualifying_time_converter", enabled |-> TRUE] }

LoadConfigs ==
    [steps : [1..MaxSteps -> LoadStepEntries], save_checkpoints : {TRUE},
     checkpoint_format : {"tsv", "xml"}]

NewPredictor ==
    [pc |-> "new", checkpoint_format |-> "tsv", steps |-> <<>>, fitted |-> <<>>,
     version |-> <<>>, dataset_name |-> <<>>, reloaded |-> {}, df |-> <<>>, error |-> "none",
     src |-> 0, predicts |-> 0]

SetPredictor(r) == predictor' = r

HasFile(version, file) ==
    \E f \in artifact_files : f.version = version /\ f.file = file

\* pickle.load of the file that pickle.dump wrote: the same objects.
FileContent(version, file) ==
    (CHOOSE f \in artifact_files : f.version = version /\ f.file = file).content

\* The files a step's load opens unconditionally, in the order it opens them
\* (LabelEncoderStep.load opens label_encoder_config.pkl only if it exists).
RequiredFiles(step_name) ==
    CASE step_name = "numerical_scaler" -> <<"numerical_scalers.pkl">>
      [] step_name = "categorical_encoder" ->
            <<"categorical_encoders.pkl", "encoder_column_mapping.pkl">>
      [] step_name = "label_encoder" ->
            <<"label_encoders.pkl", "label_encoder_classes.pkl">>
      [] OTHER -> <<>>

\* step.load(path) raises FileNotFoundError at the first file that is absent.
StepLoadRaises(step, version) ==
    \E n \in 1..Len(RequiredFiles(step.step_name)) :
        ~HasFile(version, RequiredFiles(step.step_name)[n])

\* step.load(path) assigns the instance's fitted objects as soon as its first
\* file has been read.
StepLoadAssigns(step, version) ==
    /\ RequiredFiles(step.step_name) # <<>>
    /\ HasFile(version, RequiredFiles(step.step_name)[1])

\* The first step of `for step in self.steps: step.load(path)` whose load
\* raises, 0 if none does.
FirstRaisingStep(steps, version) ==
    IF \A k \in 1..Len(steps) : ~StepLoadRaises(steps[k], version) THEN 0
    ELSE CHOOSE k \in 1..Len(steps) :
            /\ StepLoadRaises(steps[k], version)
            /\ \A j \in 1..(k - 1) : ~StepLoadRaises(steps[j], version)

\* The steps whose fitted objects the loop has replaced when it ends or raises.
ReloadedSteps(steps, version, raising) ==
    { k \in 1..Len(steps) :
        /\ raising = 0 \/ k <= raising
        /\ StepLoadAssigns(steps[k], version) }

\* The versions and dataset names a caller asks for: the explicit version and
\* those the pipelines have generated.
LoadVersions == { <<"v1">> } \cup { pipe[p].version : p \in { q \in Pipelines : pipe[q].version # <<>> } }
LoadDatasetNames == { DatasetName(y) : y \in Years }

\* ModelPredictor._initialize_pipeline, first part: DataPipeline(config_path)
\* for the pipeline configuration the predictor is pointed at.
predictor_initialize_pipeline ==
    /\ predictor.pc = "new"
    /\ \E c \in LoadConfigs :
          LET steps == _init_steps(c.steps)
          IN  SetPredictor([predictor EXCEPT !.pc = "ready",
                                             !.checkpoint_format = c.checkpoint_format,
                                             !.steps = steps,
                                             !.fitted = [k \in 1..Len(steps) |-> {}]])
    /\ UNCHANGED <<artifact_dirs, trainVars, pipeVars, registryVars, auxVars>>

\* DataPipeline._generate_artifacts_path: joins the path and creates the
\* directory (mkdir(parents=True, exist_ok=True)).
_generate_artifacts_path(dirs, version) == dirs \cup {version}

\* DataPipeline.load_artifacts(version) on the predictor's pipeline: returns
\* False when the directory or the manifest is absent, else lets every step
\* load in turn; a step's FileNotFoundError leaves the loop and the method.
load_artifacts ==
    /\ predictor.pc = "ready"
    /\ \E version \in LoadVersions :
          LET dirs == _generate_artifacts_path(artifact_dirs, version)
              found == version \in dirs /\ HasFile(version, "manifest.json")
              raising == IF found THEN FirstRaisingStep(predictor.steps, version) ELSE 0
              reloaded == IF found THEN ReloadedSteps(predictor.steps, version, raising) ELSE {}
          IN  /\ artifact_dirs' = dirs
              /\ SetPredictor([predictor EXCEPT
                    !.pc = IF ~found THEN "not_found"
                           ELSE IF raising # 0 THEN "load_raised" ELSE "loaded",
                    !.error = IF ~found THEN "returned False"
                              ELSE IF raising # 0 THEN "FileNotFoundError" ELSE "none",
                    !.version = version,
                    !.reloaded = reloaded,
                    !.fitted = [k \in 1..Len(predictor.steps) |->
                                  IF k \in reloaded
                                  THEN FileContent(version, RequiredFiles(predictor.steps[k].step_name)[1])
                                  ELSE @[k]]])
    /\ UNCHANGED <<step_classes, PipelineStep_registry, trainVars, pipeVars, auxVars>>

\* The step classes predict applies: `step.name in [...]`.
InferenceSteps == {"CategoricalEncoder", "NumericalScaler"}

\* The loop of predict over the first n steps of the predictor's pipeline:
\* data = step.process(data) for the steps named in InferenceSteps.
RECURSIVE PredictApply(_, _, _, _, _)
PredictApply(steps, fitted, calls, n, data) ==
    IF n = 0 THEN [df |-> data, fitted |-> fitted]
    ELSE LET prev == PredictApply(steps, fitted, calls, n - 1, data)
         IN  IF steps[n].name \in InferenceSteps
             THEN [df |-> InstanceProcess(steps[n], prev.fitted[n], calls, prev.df),
                   fitted |-> [prev.fitted EXCEPT
                                  ![n] = UpdateFitted(@, StepFit(steps[n], prev.df))]]
             ELSE prev

\* ModelPredictor.predict(data, apply_pipeline=True) up to the feature
\* extraction: the pipeline is initialized (and its artifacts loaded) on the
\* first call only, and the inference steps process the data.
predict_transform ==
    /\ predictor.pc \in {"loaded", "not_found", "transformed"}
    /\ predictor.predicts < MaxPredicts
    /\ \E src \in Sources, year \in Years :
          LET result == PredictApply(predictor.steps, predictor.fitted, predictor.predicts,
                                     Len(predictor.steps), RawData(src, year))
          IN  SetPredictor([predictor EXCEPT !.pc = "transformed",
                                             !.src = src,
                                             !.df = result.df,
                                             !.fitted = result.fitted,
                                             !.predicts = @ + 1])
    /\ UNCHANGED <<artifact_dirs, trainVars, pipeVars, registryVars, auxVars>>

\* A checkpoint written with its index: read_csv returns the index as one more
\* column, ahead of the others.
ReadBackWithIndex(df, format) ==
    [df EXCEPT !.columns = <<"Unnamed: 0">> \o @,
               !.dtypes = ("Unnamed: 0" :> "num") @@ @,
               !.values = ("Unnamed: 0" :> 0) @@ @]

\* df.to_csv followed by pd.read_csv: the columns and their text survive, a
\* datetime column comes back as strings; parquet keeps the dtypes.
ReadBack(df, format) ==
    IF format = "parquet" THEN df
    ELSE [df EXCEPT !.dtypes = [c \in DOMAIN @ |-> IF @[c] = "datetime" THEN "str" ELSE @[c]]]

\* os.path.exists(file_path)
CheckpointExists(path) == \E f \in checkpoint_files : f.path = path

\* DataPipeline.load_checkpoint(dataset_name, version) on the predictor's
\* pipeline: FileNotFoundError when there is no file at the path, ValueError
\* when the extension is none of tsv, csv, parquet, else the table read back.
load_checkpoint ==
    /\ predictor.pc = "ready"
    /\ \E dataset_name \in LoadDatasetNames, version \in LoadVersions :
          LET path == _generate_checkpoint_path(dataset_name, version, predictor.checkpoint_format)
              exists == CheckpointExists(path)
              supported == predictor.checkpoint_format \in SupportedFormats
          IN  SetPredictor([predictor EXCEPT
                    !.pc = IF exists /\ supported THEN "checkpoint_loaded" ELSE "checkpoint_raised",
                    !.error = IF ~exists THEN "FileNotFoundError"
                              ELSE IF ~supported THEN "ValueError" ELSE "none",
                    !.version = version,
                    !.dataset_name = dataset_name,
                    !.df = IF exists /\ supported
                           THEN ReadBack((CHOOSE f \in checkpoint_files : f.path = path).df,
                                         predictor.checkpoint_format)
                           ELSE <<>>])
    /\ UNCHANGED <<artifact_dirs, trainVars, pipeVars, registryVars, auxVars>>

\* The pipeline whose artifacts and checkpoint the predictor reloads.
Savers == {1}

LoadNext ==
    \/ predictor_initialize_pipeline
    \/ load_artifacts
    \/ predict_transform
    \/ load_checkpoint
    \/ \E p \in Savers :
          \/ DataPipeline_init(p)
          \/ process_fetch(p)
          \/ process_step(p)
          \/ process_persist(p)
          \/ save_dataset_version_commit(p)

(***************************************************************************)
(* Step registry                                                           *)
(***************************************************************************)
\* The PipelineStep subclasses of the package: class name, its own step_name
\* attribute, and its base class.
PackageStepClasses ==
    { [cls |-> registry[n], step_name |-> n, base |-> "PipelineStep"] : n \in DOMAIN registry }

\* Step types defined later: a class without a step_name attribute, and a
\* subclass of a registered step that does not set its own step_name.
FurtherStepClasses ==
    { [cls |-> "MovingAverage", step_name |-> "", base |-> "PipelineStep"],
      [cls |-> "RobustNumericalScaler", step_name |-> "", base |-> "NumericalScaler"] }

StepClasses == PackageStepClasses \cup FurtherStepClasses

\* cls.__name__.lower()
Lower(cls) ==
    CASE cls = "MovingAverage" -> "movingaverage"
      [] cls = "RobustNumericalScaler" -> "robustnumericalscaler"
      [] OTHER -> cls

RECURSIVE InheritedStepName(_)
\* getattr(cls, 'step_name') through the base classes, "" if none sets it.
InheritedStepName(c) ==
    IF c.step_name # "" THEN c.step_name
    ELSE IF c.base = "PipelineStep" THEN ""
    ELSE InheritedStepName(CHOOSE b \in StepClasses : b.cls = c.base)

\* The name __init_subclass__ registers a class under.
RegisteredName(c) ==
    IF InheritedStepName(c) # "" THEN InheritedStepName(c) ELSE Lower(c.cls)

\* cls.registry[step_name] = cls
Register(reg, name, cls) == (name :> cls) @@ [n \in (DOMAIN reg) \ {name} |-> reg[n]]

\* A class statement `class C(Base):` runs PipelineStep.__init_subclass__.
DefineStepClass(c) ==
    /\ c \notin step_classes
    /\ c.base = "PipelineStep" \/ \E b \in step_classes : b.cls = c.base
    /\ step_classes' = step_classes \cup {c}
    /\ PipelineStep_registry' = Register(PipelineStep_registry, RegisteredName(c), c.cls)
    /\ UNCHANGED <<trainVars, pipeVars, loadVars, auxVars>>

RegistryNext == \E c \in StepClasses : DefineStepClass(c)

(***************************************************************************)
(* Step transformations on tables with rows                                *)
(***************************************************************************)
\* A missing cell (None, NaN, NaT).
NaN == "NaN"

\* A column the table does not have.
Absent == [dtype |-> "absent", cells |-> <<>>]

Column(dtype, cells) == [dtype |-> dtype, cells |-> cells]

FrameColumns ==
    {"q1", "team", "roundnumber", "raceyear",
     "q1_missing", "q1_seconds", "season_progress_percent", "lagged_team"}

\* Qualifying times as the source holds them: blank, the zero time, a time in
\* 'M:S.fff' format, and a string that does not match the format.
QualifyingCells == {"", "0:00.000", "1:23.456", "1:2x"}

Q1Columns(n) ==
    {Absent} \cup { Column("object", c) : c \in [1..n -> QualifyingCells] }

\* A team column of strings, or of floats, with any of its values missing.
TeamColumns(n) ==
    {Absent}
        \cup { Column("object", c) : c \in [1..n -> {NaN, "a", "b"}] }
        \cup { Column("float64", c) : c \in [1..n -> {NaN, "1.0"}] }

\* The tables a step is given: n races of one season in round order.
InputFrames ==
    UNION { { [n |-> n,
               cols |-> [c \in FrameColumns |->
                    CASE c = "q1" -> q
                      [] c = "team" -> t
                      [] c = "roundnumber" ->
                            IF rn THEN Column("int64", [k \in 1..n |-> k]) ELSE Absent
                      [] c = "raceyear" ->
                            IF ry THEN Column("int64", [k \in 1..n |-> 2024]) ELSE Absent
                      [] OTHER -> Absent]] :
                q \in Q1Columns(n), t \in TeamColumns(n), rn \in BOOLEAN, ry \in BOOLEAN } :
            n \in 1..MaxRows }

\* col in df.columns
HasCol(df, c) == df.cols[c] # Absent

\* What a process call ends with: the returned table or the exception raised,
\* and the warnings logged.
Returned(df, warnings) == [out |-> df, raised |-> "none", warnings |-> warnings]
Raised(exception) == [out |-> <<>>, raised |-> exception, warnings |-> {}]

\* df[col].replace(r'^\s*$', np.nan, regex=True)
ReplaceBlank(cells) == [k \in DOMAIN cells |-> IF cells[k] = "" THEN NaN ELSE cells[k]]

\* np.where(df[col] == "0:00.000", 1, 0)
ZeroTimeIndicator(cells) == [k \in DOMAIN cells |-> IF cells[k] = "0:00.000" THEN 1 ELSE 0]

\* pd.to_datetime(df[col], format='%M:%S.%f') raises ValueError when a cell
\* that is not null does not match the format.
MatchesFormat(cell) == cell \in {"0:00.000", "1:23.456"}
to_datetime_raises(cells) ==
    \E k \in DOMAIN cells : cells[k] # NaN /\ ~MatchesFormat(cells[k])

\* dt.minute * 60 + dt.second + dt.microsecond / 1000000, in milliseconds;
\* NaT gives NaN.
Milliseconds(cell) ==
    CASE cell = "0:00.000" -> 0
      [] cell = "1:23.456" -> (1 * 60 + 23) * 1000 + 456
      [] OTHER -> NaN

\* QualifyingTimeConverter.process with the default columns q1, q2, q3, on
\* tables that have no q2 and no q3.
QualifyingTimeConverter_rows(df) ==
    LET skipped == { <<"not_found", c>> : c \in {"q2", "q3"} }
    IN  IF ~HasCol(df, "q1") THEN Returned(df, skipped \cup { <<"not_found", "q1">> })
        ELSE LET replaced == ReplaceBlank(df.cols["q1"].cells)
                 marked == [df EXCEPT
                              !.cols["q1"] = Column("object", replaced),
                              !.cols["q1_missing"] =
                                  Column("int64", ZeroTimeIndicator(replaced))]
             IN  IF to_datetime_raises(replaced)
                 THEN Returned(marked, skipped \cup { <<"conversion_error", "q1">> })
                 ELSE Returned([marked EXCEPT
                                  !.cols["q1"] = Column("datetime64", replaced),
                                  !.cols["q1_seconds"] =
                                      Column("float64", [k \in DOMAIN replaced |->
                                                            Milliseconds(replaced[k])])],
                               skipped)

\* select_dtypes(include=np.number)
IsNumeric(col) == col.dtype \in {"int64", "float64"}

Count(cells, v) == Cardinality({ k \in DOMAIN cells : cells[k] = v })

\* Series.mode(): the most frequent values that are not null, sorted.
Modes(cells) ==
    LET present == { cells[k] : k \in DOMAIN cells } \ {NaN}
    IN  { v \in present : \A w \in present : Count(cells, w) <= Count(cells, v) }

\* The place of a value in sorted order.
SortKey(v) == IF v = "a" THEN 1 ELSE 2

\* Series.fillna(value)
fillna(cells, value) == [k \in DOMAIN cells |-> IF cells[k] = NaN THEN value ELSE cells[k]]

\* A mode fill without the fallback: mode()[0] of an empty mode raises.
fill_mode_unguarded(cells) ==
    IF Modes(cells) = {} THEN [raised |-> "IndexError", cells |-> cells]
    ELSE [raised |-> "none",
          cells |-> fillna(cells, CHOOSE v \in Modes(cells) :
                                    \A w \in Modes(cells) : SortKey(v) <= SortKey(w))]

\* df[col].fillna(df[col].mode()[0] if not df[col].mode().empty else "UNKNOWN")
fill_mode(cells) ==
    [raised |-> "none",
     cells |-> fillna(cells,
                      IF Modes(cells) # {}
                      THEN CHOOSE v \in Modes(cells) :
                              \A w \in Modes(cells) : SortKey(v) <= SortKey(w)
                      ELSE "UNKNOWN")]

\* NullValueCleaner.process with strategy fill_mode and columns ["team"]:
\* df[columns] raises KeyError for a column the table lacks, and only the
\* columns select_dtypes(exclude=np.number) keeps are filled.
NullValueCleaner_fill_mode(df) ==
    IF ~HasCol(df, "team") THEN Raised("KeyError")
    ELSE IF IsNumeric(df.cols["team"]) THEN Returned(df, {})
    ELSE LET filled == fill_mode(df.cols["team"].cells)
         IN  IF filled.raised # "none" THEN Raised(filled.raised)
             ELSE Returned([df EXCEPT !.cols["team"].cells = filled.cells], {})

\* The rows of a column at the indices kept, in order.
KeepRows(cells, kept) ==
    [j \in 1..Cardinality(kept) |->
        cells[CHOOSE k \in kept : Cardinality({ i \in kept : i < k }) = j - 1]]

\* NullValueCleaner.process with strategy drop_rows and columns ["team"]:
\* df.dropna(subset=columns) raises KeyError for a column the table lacks.
NullValueCleaner_drop_rows(df) ==
    IF ~HasCol(df, "team") THEN Raised("KeyError")
    ELSE LET kept == { k \in 1..df.n : df.cols["team"].cells[k] # NaN }
         IN  Returned([n |-> Cardinality(kept),
                       cols |-> [c \in FrameColumns |->
                                    IF HasCol(df, c)
                                    THEN [df.cols[c] EXCEPT !.cells = KeepRows(@, kept)]
                                    ELSE Absent]], {})

\* SeasonProgress.process: df['roundnumber'] and groupby(['raceyear']) raise
\* KeyError for a column the table lacks; the result pairs each round with the
\* largest round of its season.
SeasonProgress_process(df) ==
    IF ~HasCol(df, "roundnumber") \/ ~HasCol(df, "raceyear") THEN Raised("KeyError")
    ELSE LET round == df.cols["roundnumber"].cells
             year == df.cols["raceyear"].cells
             max(k) == CHOOSE m \in { round[j] : j \in { i \in 1..df.n : year[i] = year[k] } } :
                          \A j \in { i \in 1..df.n : year[i] = year[k] } : round[j] <= m
         IN  Returned([df EXCEPT !.cols["season_progress_percent"] =
                            Column("float64", [k \in 1..df.n |-> <<round[k], max(k)>>])], {})

\* The configurations of the Lagged-Feature Generator: lag_columns ["team"],
\* group_columns ["raceyear"] and sort_columns ["roundnumber"], or the same
\* without the key 'sort_columns'.
LaggedConfigs == {"complete", "no_sort_columns"}

\* LaggedFeatureGenerator.process: the validation raises ValueError for a
\* missing key and KeyError for a missing column; then each lag column is
\* shifted by one row within its season, the gaps and nulls are filled with
\* fill_value 0, and the original column is dropped.
LaggedFeatureGenerator_rows(cfg, df) ==
    IF cfg # "complete" THEN Raised("ValueError")
    ELSE IF \E c \in {"team", "raceyear", "roundnumber"} : ~HasCol(df, c)
    THEN Raised("KeyError")
    ELSE LET team == df.cols["team"].cells
             shifted == [k \in 1..df.n |-> IF k = 1 THEN NaN ELSE team[k - 1]]
         IN  Returned([df EXCEPT
                          !.cols["lagged_team"] =
                              Column(df.cols["team"].dtype, fillna(shifted, "0")),
                          !.cols["team"] = Absent], {})

\* DropColumns.process with columns ["team"]: a column the table lacks is
\* logged, the others are dropped.
DropColumns_rows(df) ==
    IF ~HasCol(df, "team") THEN Returned(df, { <<"not_found", "team">> })
    ELSE Returned([df EXCEPT !.cols["team"] = Absent], {})

\* The configured step instances whose process is called.
StepInstances ==
    { [step_name |-> "qualifying_time_converter", cfg |-> "default"],
      [step_name |-> "null_value_cleaner", cfg |-> "fill_mode"],
      [step_name |-> "null_value_cleaner", cfg |-> "drop_rows"],
      [step_name |-> "season_progress", cfg |-> "default"],
      [step_name |-> "drop_columns", cfg |-> "default"] }
        \cup { [step_name |-> "lagged_feature_generator", cfg |-> c] : c \in LaggedConfigs }

\* The columns an instance's configuration refers to.
ReferencedColumns(step) ==
    CASE step.step_name = "qualifying_time_converter" -> {"q1"}
      [] step.step_name = "null_value_cleaner" -> {"team"}
      [] step.step_name = "season_progress" -> {"roundnumber", "raceyear"}
      [] step.step_name = "drop_columns" -> {"team"}
      [] step.step_name = "lagged_feature_generator" -> {"team", "raceyear", "roundnumber"}

\* step.process(df) on a table with rows.
ProcessRows(step, df) ==
    CASE step.step_name = "qualifying_time_converter" -> QualifyingTimeConverter_rows(df)
      [] step.step_name = "null_value_cleaner" /\ step.cfg = "fill_mode" ->
            NullValueCleaner_fill_mode(df)
      [] step.step_name = "null_value_cleaner" /\ step.cfg = "drop_rows" ->
            NullValueCleaner_drop_rows(df)
      [] step.step_name = "season_progress" -> SeasonProgress_process(df)
      [] step.step_name = "drop_columns" -> DropColumns_rows(df)
      [] step.step_name = "lagged_feature_generator" ->
            LaggedFeatureGenerator_rows(step.cfg, df)

\* No step has been called.
NoCall == [pc |-> "idle", step |-> <<>>, out |-> <<>>, raised |-> "none", warnings |-> {}]

\* No table is at hand.
StepsIdle ==
    /\ frame = [n |-> 0, cols |-> [c \in FrameColumns |-> Absent]]
    /\ step_call = NoCall

\* One call of step.process(df).
step_process ==
    /\ step_call.pc = "idle"
    /\ \E step \in StepInstances :
          step_call' = [pc |-> "called", step |-> step] @@ ProcessRows(step, frame)
    /\ UNCHANGED <<frame, trainVars, pipeVars, loadVars, registryVars, configVars>>

StepsNext == step_process

(***************************************************************************)
(* Configuration management                                                *)
(***************************************************************************)
\* CONFIG_FILES: the configuration names and their file names.
CONFIG_FILES ==
    [n \in {"database", "logging"} |->
        IF n = "database" THEN "database.json" ELSE "logging.json"]

\* The names get_config is called with: those of CONFIG_FILES and those of
\* the model, training and pipeline configurations.
ConfigNames == {"database", "logging", "model", "training", "pipeline"}

\* What a file of the config directory holds: nothing (no such file), text
\* that is not JSON, or one of two JSON objects.
FileContents == {"missing", "invalid", "json_1", "json_2"}

\* What a call ends with.
ConfigReturned(value) == [raised |-> "none", value |-> value]
ConfigRaised(exception) == [raised |-> exception, value |-> <<>>]

\* Config.get_config_path: a name outside CONFIG_FILES raises ValueError.
get_config_path(config_name) ==
    IF config_name \notin DOMAIN CONFIG_FILES THEN ConfigRaised("ValueError")
    ELSE ConfigReturned(CONFIG_FILES[config_name])

\* Config.load_config: the parsed content of the file at the path.
load_config(config_name) ==
    LET path == get_config_path(config_name)
    IN  IF path.raised # "none" THEN path
        ELSE CASE config_files[path.value] = "missing" -> ConfigRaised("FileNotFoundError")
               [] config_files[path.value] = "invalid" -> ConfigRaised("ValueError")
               [] OTHER -> ConfigReturned(config_files[path.value])

\* No call yet.
NoConfigCall == [pc |-> "idle", name |-> "", reload |-> FALSE, raised |-> "none",
                 value |-> <<>>, cached |-> FALSE]

\* The module has been imported and nothing is cached.
ConfigIdle ==
    /\ config_files = [f \in {"database.json", "logging.json"} |-> "json_1"]
    /\ Config_configs = <<>>
    /\ config_call = NoConfigCall

\* Config.get_config(config_name, reload): loads on a reload or a name that is
\* not cached, stores the result under the name, and returns the cached entry.
get_config(config_name, reload) ==
    LET load == reload \/ config_name \notin DOMAIN Config_configs
        loaded == load_config(config_name)
    IN  /\ Config_configs' =
              IF load /\ loaded.raised = "none"
              THEN (config_name :> loaded.value) @@ Config_configs
              ELSE Config_configs
        /\ config_call' =
              [pc |-> "called", name |-> config_name, reload |-> reload,
               cached |-> config_name \in DOMAIN Config_configs]
                 @@ (IF load THEN loaded ELSE ConfigReturned(Config_configs[config_name]))
        /\ UNCHANGED <<config_files, trainVars, pipeVars, loadVars, registryVars, stepVars>>

\* A file of the config directory is written, replaced or removed.
WriteConfigFile(file, content) ==
    /\ config_files[file] # content
    /\ config_files' = [config_files EXCEPT ![file] = content]
    /\ UNCHANGED <<Config_configs, config_call, trainVars, pipeVars, loadVars, registryVars, stepVars>>

ConfigNext ==
    \/ \E name \in ConfigNames, reload \in BOOLEAN : get_config(name, reload)
    \/ \E file \in DOMAIN config_files, content \in FileContents : WriteConfigFile(file, content)

\* Before any step module is imported.
RegistryEmpty ==
    /\ step_classes = {}
    /\ PipelineStep_registry = <<>>

\* After the package's step modules are imported.
RegistryLoaded ==
    /\ step_classes = PackageStepClasses
    /\ PipelineStep_registry = registry

\* No predictor yet, no artifact directory.
LoadIdle ==
    /\ artifact_dirs = {}
    /\ predictor = NewPredictor

\* The configuration the training lifecycle runs beside: it uses no data pipeline.
PipeUnused ==
    /\ config = [steps |-> <<[name |-> "drop_columns", enabled |-> FALSE]>>,
                 save_checkpoints |-> FALSE, checkpoint_format |-> "tsv"]
    /\ PipeIdle

\* The pipelines start unconstructed over an empty database.
InitPipeline == PipeInit /\ TrainInit /\ LoadIdle /\ RegistryLoaded /\ StepsIdle /\ ConfigIdle

\* The training entry points start uncalled over an empty database.
InitTraining == TrainInit /\ PipeUnused /\ LoadIdle /\ RegistryLoaded /\ StepsIdle /\ ConfigIdle

\* The reload scenario: one pipeline saves, the predictor's pipeline reloads.
InitLoad ==
    /\ config \in LoadConfigs
    /\ PipeIdle
    /\ TrainInit
    /\ LoadIdle
    /\ RegistryLoaded
    /\ StepsIdle
    /\ ConfigIdle

\* Class definitions from an empty registry on.
InitRegistry == PipeUnused /\ TrainInit /\ LoadIdle /\ RegistryEmpty /\ StepsIdle /\ ConfigIdle

PipeSpec == InitPipeline /\ [][PipeNext]_vars

TrainSpec == InitTraining /\ [][TrainNext]_vars

LoadSpec == InitLoad /\ [][LoadNext]_vars

RegistrySpec == InitRegistry /\ [][RegistryNext]_vars

\* Single step calls: a step instance is handed one table.
InitSteps ==
    /\ frame \in InputFrames
    /\ step_call = NoCall
    /\ PipeUnused
    /\ TrainInit
    /\ LoadIdle
    /\ RegistryLoaded
    /\ ConfigIdle

StepsSpec == InitSteps /\ [][StepsNext]_vars

\* Configuration management: calls of get_config beside edits of the files.
InitConfig == ConfigIdle /\ PipeUnused /\ TrainInit /\ LoadIdle /\ RegistryLoaded /\ StepsIdle

ConfigSpec == InitConfig /\ [][ConfigNext]_vars

(***************************************************************************)
(* Training lifecycle: properties                                          *)
(***************************************************************************)
RunIds == 1..Len(training_runs)
Terminal == {"COMPLETED", "FAILED"}

\* Indices of the metric rows of a run, all of them or those of one epoch.
RunRows(run_id) ==
    { j \in 1..Len(training_metrics) : training_metrics[j].run_id = run_id }
RunEpochRows(run_id, epoch) ==
    { j \in RunRows(run_id) : training_metrics[j].epoch = epoch }

HasRun(i) == inv[i].run_id \in RunIds

\* C1: in every training invocation the placeholder model-metadata record and
\* the RUNNING run record are committed before the first epoch executes: an
\* invocation that has executed an epoch (or is inside its epoch loop) has both.
C1_PlaceholderBeforeFirstEpoch ==
    \A i \in Invocations :
        (inv[i].pc = "fit_loop" \/ inv[i].epochs_run > 0) =>
            /\ inv[i].model_id \in 1..Len(model_metadata)
            /\ HasRun(i)

\* C2: a run leaves RUNNING only for COMPLETED or FAILED and only in the step
\* that ends the training of the invocation owning it; a terminal status never
\* changes again; and an invocation that returned has its run COMPLETED.
C2_StatusStep ==
    \A k \in RunIds :
        LET old == training_runs[k].status
            new == training_runs'[k].status
        IN  /\ old \in Terminal => new = old
            /\ (old = "RUNNING" /\ new # old) =>
                  /\ new \in Terminal
                  /\ \E i \in Invocations :
                        /\ inv[i].run_id = k
                        /\ inv[i].pc = "fit_loop"
                        /\ LoopFinished(i)
                        /\ inv'[i].pc # "fit_loop"

C2_TerminalExactlyOnce ==
    /\ [][C2_StatusStep]_vars
    /\ [](\A i \in Invocations :
             inv[i].pc = "returned" =>
                 HasRun(i) /\ training_runs[inv[i].run_id].status = "COMPLETED")

C2_Witness ==
    \E i \in Invocations :
        /\ inv[i].variant \in {"runner", "trainer"}
        /\ inv[i].pc = "returned"
        /\ training_runs[inv[i].run_id].status = "COMPLETED"
        /\ \E j \in Invocations : j # i /\ HasRun(j) /\ inv[j].pc = "fit_loop"

\* C3: if model.fit raises in run_experiment after the run record was created,
\* the run record stays RUNNING with end_time unset (and the invocation raised).
C3_FitRaisesLeavesRunning ==
    \A i \in Invocations :
        (inv[i].variant = "runner" /\ inv[i].error = "fit" /\ HasRun(i)) =>
            /\ inv[i].pc = "raised"
            /\ training_runs[inv[i].run_id].status = "RUNNING"
            /\ training_runs[inv[i].run_id].end_time = Unset

\* C4: after an invocation returned with its run COMPLETED, the run's metric
\* rows with epoch = -1 are exactly one batch (one row per metric name), all of
\* split_type TEST, and every other row of the run has epoch >= 0.
C4_OneTestBatch ==
    \A i \in Invocations :
        (inv[i].pc = "returned" /\ HasRun(i)
           /\ training_runs[inv[i].run_id].status = "COMPLETED") =>
            LET test == RunEpochRows(inv[i].run_id, -1)
            IN  /\ Cardinality(test) = Len(inv[i].metrics_names)
                /\ \A j \in test : training_metrics[j].split_type = "TEST"
                /\ \A m \in 1..Len(inv[i].metrics_names) :
                      \E j \in test :
                          training_metrics[j].metric_name = Name(inv[i].metrics_names[m])
                /\ \A j \in RunRows(inv[i].run_id) \ test : training_metrics[j].epoch >= 0

\* C5: in every state of the store, whatever failed or crashed, the rows of one
\* epoch of one run are either absent or the complete batch of that epoch: one
\* TRAIN row and one VALIDATION row per metric name of the run's model.
C5_EpochBatchAtomic ==
    \A i \in Invocations :
        HasRun(i) =>
            \A e \in 0..(MaxEpochs - 1) :
                LET rows == RunEpochRows(inv[i].run_id, e)
                    names == inv[i].metrics_names
                IN  \/ rows = {}
                    \/ /\ Cardinality(rows) = 2 * Len(names)
                       /\ \A m \in 1..Len(names) :
                             \A split \in {"TRAIN", "VALIDATION"} :
                                 \E j \in rows :
                                     /\ training_metrics[j].metric_name = Name(names[m])
                                     /\ training_metrics[j].split_type = split

\* A failed commit at an epoch end, after an epoch whose batch was committed.
C5_Witness ==
    \E i \in Invocations :
        /\ HasRun(i)
        /\ inv[i].pc = "raised"
        /\ inv[i].error = "fit"
        /\ inv[i].epochs_run = 2
        /\ RunEpochRows(inv[i].run_id, 0) # {}
        /\ RunEpochRows(inv[i].run_id, 1) = {}

\* C6: a run finalized as COMPLETED (created RUNNING by run_experiment or by
\* ModelTrainer.train) has epochs_completed equal to the number of distinct
\* epoch values >= 0 among its metric rows, which is the number of epochs that
\* executed.
C6_EpochsCompleted ==
    \A i \in Invocations :
        (inv[i].variant \in {"runner", "trainer"} /\ HasRun(i)
           /\ training_runs[inv[i].run_id].status = "COMPLETED") =>
            LET run == training_runs[inv[i].run_id]
                epochs == { training_metrics[j].epoch : j \in RunRows(inv[i].run_id) }
            IN  /\ run.epochs_completed = Cardinality({ e \in epochs : e >= 0 })
                /\ run.epochs_completed = inv[i].epochs_run

\* An early-stopped run: finalized with fewer epochs than the budget.
C6_Witness ==
    \E i \in Invocations :
        /\ inv[i].variant = "runner"
        /\ HasRun(i)
        /\ training_runs[inv[i].run_id].status = "COMPLETED"
        /\ training_runs[inv[i].run_id].epochs_completed = 1
        /\ inv[i].epochs = 2

(***************************************************************************)
(* Data pipeline: properties                                               *)
(***************************************************************************)
VersionRows(dataset_name, version) ==
    { k \in 1..Len(dataset_versions) :
        /\ dataset_versions[k].dataset_name = dataset_name
        /\ dataset_versions[k].version = version }

Processing(p) == pipe[p].pc \in {"steps", "commit", "done", "raised"}

\* C7: process applies the initialized steps one at a time in configuration
\* order, each on the table the previous one returned (the first on the raw
\* table), and steps_applied holds one description per applied step, in order;
\* once the loop is over every step has been applied and df is the last result.
C7_DeclaredOrder ==
    \A p \in Pipelines :
        Processing(p) =>
            LET r == pipe[p]
                n == Len(r.calls)
            IN  /\ n <= Len(r.steps)
                /\ Len(r.steps_applied) = n
                /\ \A k \in 1..n :
                      /\ r.calls[k].step = r.steps[k]
                      /\ r.calls[k].in = IF k = 1 THEN RawData(r.src, r.year)
                                         ELSE r.calls[k - 1].out
                      /\ r.steps_applied[k] = get_description(r.steps[k])
                /\ r.pc \in {"commit", "done"} =>
                      /\ n = Len(r.steps)
                      /\ r.df = IF n = 0 THEN RawData(r.src, r.year) ELSE r.calls[n].out

\* A chain of two different steps, the second reading a column of the first.
C7_Witness ==
    \E p \in Pipelines :
        /\ pipe[p].pc = "done"
        /\ Len(pipe[p].calls) = 2
        /\ pipe[p].calls[1].step.step_name = "qualifying_time_converter"
        /\ pipe[p].calls[2].step.step_name = "numerical_scaler"
        /\ pipe[p].calls[2].in # pipe[p].calls[2].out

\* C8: when a step's process raises, process raises: the step that does so
\* writes nothing, the run has not applied every step, has written no
\* checkpoint, artifact, manifest or dataset-version record, and does nothing
\* further.
C8_RaiseStep ==
    \A p \in Pipelines :
        /\ (pipe'[p].step_raised /\ ~pipe[p].step_raised) =>
              UNCHANGED <<checkpoint_files, artifact_files, dataset_versions>>
        /\ pipe'[p].step_raised =>
              /\ pipe'[p].pc = "raised"
              /\ pipe'[p].writes = {}
              /\ Len(pipe'[p].calls) < Len(pipe'[p].steps)
        /\ pipe[p].step_raised => pipe'[p] = pipe[p]

C8_StepFailureAborts == [][C8_RaiseStep]_vars

\* A run that raised in its second step, beside a run that saved everything.
C8_Witness ==
    \E p, q \in Pipelines :
        /\ pipe[p].step_raised
        /\ Len(pipe[p].calls) = 1
        /\ pipe[q].pc = "done"
        /\ pipe[q].writes = {"checkpoint", "manifest", "record"}

\* C9: the store never holds two dataset-version records with the same
\* (dataset_name, version), however the process runs interleave; a run that
\* finished has exactly one record for its version, and a run that found a
\* record for its version updates that record and adds none.
C9_UpdateStep ==
    \A p \in Pipelines :
        (pipe[p].pc = "commit" /\ pipe'[p].pc = "done" /\ pipe[p].existing # None) =>
            /\ Len(dataset_versions') = Len(dataset_versions)
            /\ dataset_versions'[pipe[p].existing].created_at = now'
            /\ dataset_versions'[pipe[p].existing].preprocessing_steps = pipe[p].steps_applied
            /\ dataset_versions'[pipe[p].existing].data_path = pipe[p].file_path

C9_UniqueVersion ==
    /\ [](\A a, b \in 1..Len(dataset_versions) :
             (dataset_versions[a].dataset_name = dataset_versions[b].dataset_name
                /\ dataset_versions[a].version = dataset_versions[b].version) => a = b)
    /\ [](\A p \in Pipelines :
             pipe[p].pc = "done" =>
                 Cardinality(VersionRows(DatasetName(pipe[p].year), pipe[p].version)) = 1)
    /\ [][C9_UpdateStep]_vars

\* Two interleaved runs of one version: both found no record, one inserted, the
\* other one's insert was refused.
C9_Witness ==
    \E p, q \in Pipelines :
        /\ p # q
        /\ pipe[p].pc = "done"
        /\ pipe[q].pc = "raised"
        /\ pipe[q].error = "commit"
        /\ pipe[p].existing = None
        /\ pipe[q].existing = None
        /\ pipe[p].version = pipe[q].version

\* Two finished runs on identical source data, on the same date, with no
\* explicit version.
SameDataRuns(p, q) ==
    /\ p # q
    /\ pipe[p].pc = "done"
    /\ pipe[q].pc = "done"
    /\ pipe[p].src = pipe[q].src
    /\ pipe[p].year = pipe[q].year
    /\ pipe[p].save_version = NoVersion
    /\ pipe[q].save_version = NoVersion
    /\ pipe[p].date_used = pipe[q].date_used

\* C10 as stated: two such runs leave two dataset-version records with different
\* created_at and the same hash suffix in their versions.
C10_TwoRecords ==
    \A p, q \in Pipelines :
        SameDataRuns(p, q) =>
            \E a, b \in 1..Len(dataset_versions) :
                /\ a # b
                /\ dataset_versions[a].version = pipe[p].version
                /\ dataset_versions[b].version[2] = dataset_versions[a].version[2]
                /\ dataset_versions[a].created_at # dataset_versions[b].created_at

\* C10 amended: two such runs compute the same version, and the store holds one
\* record for it, whose created_at is that of the latest finished run of that
\* version.
C10_OneRecordUpdated ==
    \A p, q \in Pipelines :
        SameDataRuns(p, q) =>
            /\ pipe[p].version = pipe[q].version
            /\ LET rows == VersionRows(DatasetName(pipe[p].year), pipe[p].version)
                   savers == { x \in Pipelines :
                                 pipe[x].pc = "done" /\ pipe[x].year = pipe[p].year
                                   /\ pipe[x].version = pipe[p].version }
               IN  /\ Cardinality(rows) = 1
                   /\ \A k \in rows :
                         /\ \E x \in savers : dataset_versions[k].created_at = pipe[x].saved_at
                         /\ \A x \in savers : dataset_versions[k].created_at >= pipe[x].saved_at

C10_Witness ==
    \E p, q \in Pipelines :
        /\ SameDataRuns(p, q)
        /\ pipe[q].existing # None
        /\ pipe[p].saved_at < pipe[q].saved_at
        /\ Len(pipe[p].steps) = 2

(***************************************************************************)
(* Data pipeline: versions, artifacts, reload                              *)
(***************************************************************************)
\* process has computed the version of pipeline p.
Versioned(p) == pipe[p].version # <<>>

GeneratedVersion(p) == Versioned(p) /\ pipe[p].save_version = NoVersion

\* C11: without an explicit version the version id is "{date}_{hash}", the
\* hash being that of the final processed table alone: two process runs of the
\* same step chain on the same input table on the same date get the same
\* version id, and so do any two runs that end with the same table on one date.
C11_SameInputSameVersion ==
    \A p, q \in Pipelines :
        (GeneratedVersion(p) /\ GeneratedVersion(q)) =>
            /\ pipe[p].version = <<pipe[p].date_used, _compute_data_hash(pipe[p].df)>>
            /\ (/\ pipe[p].steps = pipe[q].steps
                /\ pipe[p].src = pipe[q].src
                /\ pipe[p].year = pipe[q].year
                /\ pipe[p].date_used = pipe[q].date_used) => pipe[p].version = pipe[q].version
            /\ (/\ pipe[p].df = pipe[q].df
                /\ pipe[p].date_used = pipe[q].date_used) => pipe[p].version = pipe[q].version

C11_Witness ==
    \E p, q \in Pipelines :
        /\ p # q
        /\ GeneratedVersion(p) /\ GeneratedVersion(q)
        /\ pipe[p].src = pipe[q].src
        /\ pipe[p].date_used = pipe[q].date_used
        /\ pipe[p].pc = "done"
        /\ pipe[q].pc = "commit"
        /\ pipe[p].saved_at > 0
        /\ \E k \in 1..Len(pipe[p].steps) : pipe[p].fitted[k] # {}
        /\ pipe[p].version = pipe[q].version

\* process has returned: the table is with the caller.
Succeeded(p) == pipe[p].pc = "done"

\* The steps of pipeline p that hold fitted objects.
FittedSteps(p) == { k \in 1..Len(pipe[p].steps) : pipe[p].fitted[k] # {} }

\* C12: after a successful process run with version v the directory of v
\* exists and holds manifest.json, whose step list is the class names of the
\* pipeline's active steps in execution order, together with every artifact
\* file of every step that has fitted state.
C12_ManifestWithArtifacts ==
    \A p \in Pipelines :
        Succeeded(p) =>
            /\ pipe[p].version \in artifact_dirs
            /\ HasFile(pipe[p].version, "manifest.json")
            /\ FileContent(pipe[p].version, "manifest.json")
                  = [k \in 1..Len(pipe[p].steps) |-> pipe[p].steps[k].name]
            /\ Len(pipe[p].calls) = Len(pipe[p].steps)
            /\ \A k \in 1..Len(pipe[p].steps) :
                  FileContent(pipe[p].version, "manifest.json")[k] = pipe[p].calls[k].step.name
            /\ \A k \in FittedSteps(p) :
                  \A n \in 1..Len(ArtifactFileNames(pipe[p].steps[k].step_name)) :
                      HasFile(pipe[p].version, ArtifactFileNames(pipe[p].steps[k].step_name)[n])

C12_Witness ==
    \E p \in Pipelines :
        /\ Succeeded(p)
        /\ Len(pipe[p].steps) = 2
        /\ pipe[p].steps[1].step_name = "categorical_encoder"
        /\ pipe[p].steps[2].step_name = "numerical_scaler"
        /\ FittedSteps(p) = {1, 2}
        /\ HasFile(pipe[p].version, "encoder_column_mapping.pkl")
        /\ HasFile(pipe[p].version, "numerical_scalers.pkl")

\* A step that is a call of load_artifacts on the predictor's pipeline.
LoadArtifactsCall ==
    /\ predictor.pc = "ready"
    /\ predictor'.pc \in {"not_found", "load_raised", "loaded"}

\* C13: whenever the directory of the version or its manifest.json is absent,
\* load_artifacts(version) ends with the not-found condition, has reloaded no
\* step's state, and leaves the artifact store (directories and files) as it
\* was before the call.
C13_LoadStep ==
    LoadArtifactsCall =>
        ((predictor'.version \notin artifact_dirs
            \/ ~HasFile(predictor'.version, "manifest.json")) =>
                /\ predictor'.pc = "not_found"
                /\ predictor'.reloaded = {}
                /\ predictor'.fitted = predictor.fitted
                /\ artifact_files' = artifact_files
                /\ artifact_dirs' = artifact_dirs)
C13_NotFoundLeavesStore == [][C13_LoadStep]_vars

\* A step that is a call of load_artifacts which a step's load made raise.
LoadArtifactsRaised ==
    /\ predictor.pc = "ready"
    /\ predictor'.pc = "load_raised"

\* C14: when load_artifacts fails because a configured step's artifact file is
\* absent, no configured step's fitted state has been changed by the call.
C14_LoadStep ==
    LoadArtifactsRaised =>
        /\ predictor'.reloaded = {}
        /\ predictor'.fitted = predictor.fitted
C14_AllOrNothing == [][C14_LoadStep]_vars

\* The predictor's pipeline has reloaded the artifacts pipeline p saved, and its
\* k-th step is a fresh instance of the type and configuration of p's k-th
\* step, a stateful one that was fitted before it was saved.
ReloadedFrom(p, k) ==
    /\ predictor.pc = "loaded"
    /\ Succeeded(p)
    /\ predictor.version = pipe[p].version
    /\ k \in 1..Len(pipe[p].steps)
    /\ k \in predictor.reloaded
    /\ predictor.steps[k] = pipe[p].steps[k]
    /\ pipe[p].steps[k].step_name \in StatefulSteps
    /\ pipe[p].fitted[k] # {}

LoadCheckpointCall ==
    /\ predictor.pc = "ready"
    /\ predictor'.pc \in {"checkpoint_loaded", "checkpoint_raised"}

\* The pipelines whose process wrote the checkpoint file at the path.
Persisted(path) ==
    { p \in Pipelines : "checkpoint" \in pipe[p].writes /\ pipe[p].file_path = path }

\* C16: load_checkpoint(dataset_name, version) raises when no file exists at
\* {checkpoint_dir}/{dataset_name}_{version}.{format} or when the format is not
\* a recognized one, and otherwise returns the table (columns in order, their
\* content, the rows) that process persisted for that name and version.
C16_LoadStep ==
    LoadCheckpointCall =>
        LET path == _generate_checkpoint_path(predictor'.dataset_name, predictor'.version,
                                              predictor.checkpoint_format)
            readable == CheckpointExists(path)
                          /\ predictor.checkpoint_format \in SupportedFormats
        IN  /\ ~readable => /\ predictor'.pc = "checkpoint_raised"
                            /\ predictor'.error \in {"FileNotFoundError", "ValueError"}
                            /\ predictor'.df = <<>>
            /\ readable => /\ predictor'.pc = "checkpoint_loaded"
                           /\ \E p \in Persisted(path) :
                                 /\ DatasetName(pipe[p].year) = predictor'.dataset_name
                                 /\ pipe[p].version = predictor'.version
                                 /\ predictor'.df.columns = pipe[p].df.columns
                                 /\ predictor'.df.values = pipe[p].df.values
                                 /\ predictor'.df.rows = pipe[p].df.rows
            /\ UNCHANGED checkpoint_files
UnsupportedCheckpoint(p) ==
    /\ pipe[p].pc # "new"
    /\ config.save_checkpoints
    /\ config.checkpoint_format \notin {"tsv", "csv", "parquet"}

\* process of pipeline p has gone through its checkpoint section.
PastCheckpoint(p) ==
    Versioned(p) /\ pipe[p].error # "checkpoint"

\* C17: with checkpointing enabled and an unsupported checkpoint format,
\* process logs a warning, writes no checkpoint file and does not raise because
\* of it; the run goes on to the artifacts and the version record and returns
\* the processed table.
C17_UnsupportedFormatSkipped ==
    \A p \in Pipelines :
        UnsupportedCheckpoint(p) =>
            /\ pipe[p].error # "checkpoint"
            /\ Versioned(p) =>
                  /\ <<"unsupported_format", config.checkpoint_format>> \in pipe[p].warnings
                  /\ "checkpoint" \notin pipe[p].writes
                  /\ ~CheckpointExists(_generate_checkpoint_path(DatasetName(pipe[p].year),
                                           pipe[p].version, config.checkpoint_format))
            /\ Succeeded(p) =>
                  /\ {"manifest", "record"} \subseteq pipe[p].writes
                  /\ pipe[p].df = IF pipe[p].calls = <<>> THEN RawData(pipe[p].src, pipe[p].year)
                                  ELSE pipe[p].calls[Len(pipe[p].calls)].out

C17_Witness ==
    \E p \in Pipelines :
        /\ UnsupportedCheckpoint(p)
        /\ Succeeded(p)
        /\ Len(pipe[p].calls) = 2
        /\ pipe[p].warnings = { <<"unsupported_format", "xml">> }
        /\ checkpoint_files = {}
        /\ pipe[p].file_path # <<>>

\* Positions of the configuration entries that are enabled, and of those that
\* are enabled and name a registered step type.
EnabledEntries == { j \in 1..Len(config.steps) : config.steps[j].enabled }
ActiveEntries ==
    { j \in EnabledEntries : config.steps[j].name \in DOMAIN PipelineStep_registry }

\* The k-th smallest position of a set of positions.
Nth(positions, k) ==
    CHOOSE j \in positions : Cardinality({ i \in positions : i < j }) = k - 1

\* C18: after initialization the step list has exactly one instance for each
\* configuration entry that is enabled and whose name is in the registry, in
\* configuration order, each of the class registered under the name; an
\* enabled entry with an unknown name is skipped with a warning, and a disabled
\* entry is skipped before any registry lookup.
C18_StepsFromConfig ==
    \A p \in Pipelines :
        pipe[p].pc # "new" =>
            /\ Len(pipe[p].steps) = Cardinality(ActiveEntries)
            /\ \A k \in 1..Len(pipe[p].steps) :
                  /\ pipe[p].steps[k].step_name = config.steps[Nth(ActiveEntries, k)].name
                  /\ pipe[p].steps[k].name
                        = PipelineStep_registry[config.steps[Nth(ActiveEntries, k)].name]
            /\ \A j \in EnabledEntries \ ActiveEntries :
                  <<"unknown_step", config.steps[j].name>> \in pipe[p].warnings
            /\ \A w \in pipe[p].warnings :
                  w[1] = "unknown_step" =>
                      \E j \in EnabledEntries \ ActiveEntries : config.steps[j].name = w[2]
            /\ Len(pipe[p].lookups) = Cardinality(EnabledEntries)
            /\ \A k \in 1..Len(pipe[p].lookups) :
                  pipe[p].lookups[k] = config.steps[Nth(EnabledEntries, k)].name

C18_Witness ==
    \E p \in Pipelines :
        /\ pipe[p].pc = "ready"
        /\ config.steps[1].name = "moving_average"
        /\ ~config.steps[2].enabled
        /\ pipe[p].steps = <<>>
        /\ pipe[p].lookups = <<"moving_average">>
        /\ pipe[p].warnings = { <<"unknown_step", "moving_average">> }

(***************************************************************************)
(* Step registry: properties                                               *)
(***************************************************************************)
\* Every defined step type is in the registry under its step-type name.
C19_Complete ==
    \A c \in step_classes :
        /\ RegisteredName(c) \in DOMAIN PipelineStep_registry
        /\ PipelineStep_registry[RegisteredName(c)] = c.cls

\* No step removes a name from the registry or changes the class under it.
C19_AppendOnly ==
    \A n \in DOMAIN PipelineStep_registry :
        /\ n \in DOMAIN PipelineStep_registry'
        /\ PipelineStep_registry'[n] = PipelineStep_registry[n]

\* C19: the step registry is complete and append-only: every step type that
\* has been defined is registered under its step-type name, and defining a
\* further step type never removes or replaces the class registered under an
\* existing name.
C19_AppendOnlyComplete == []C19_Complete /\ [][C19_AppendOnly]_vars

\* The registry after the package's ten step classes is the one the pipelines use.
RegistryOfPackage == (step_classes = PackageStepClasses) => (PipelineStep_registry = registry)

(***************************************************************************)
(* Training lifecycle: isolation of invocations                            *)
(***************************************************************************)
\* Invocation i has gone through the creation of its model and run records.
PastRecordCreation(i) ==
    \/ inv[i].pc \in {"evaluate", "returned"}
    \/ inv[i].pc = "fit_loop" /\ inv[i].variant # "legacy"

\* C20: every invocation of the training sequence, run after or concurrently
\* with others, gets a newly created model-metadata record and run record of
\* its own: none is refused its record because of a record another invocation
\* created, and no two invocations hold the same model or run record.
C20_OwnRecords ==
    \A i \in Invocations :
        /\ ~inv[i].integrity_error
        /\ PastRecordCreation(i) =>
              /\ inv[i].model_id \in 1..Len(model_metadata)
              /\ inv[i].run_id \in RunIds
              /\ training_runs[inv[i].run_id].model_id = inv[i].model_id
              /\ \A j \in Invocations \ {i} :
                    /\ inv[j].model_id # inv[i].model_id
                    /\ inv[j].run_id # inv[i].run_id

(***************************************************************************)
(* Step chains: order dependence                                           *)
(***************************************************************************)
\* The outcome of running steps[1], ..., steps[n] one after the other on df:
\* the last table, or a raise.
RECURSIVE RunChain(_, _, _)
RunChain(steps, n, df) ==
    IF n = 0 THEN [raised |-> FALSE, df |-> df]
    ELSE LET prev == RunChain(steps, n - 1, df)
         IN  IF prev.raised \/ StepRaises(steps[n], prev.df)
             THEN [raised |-> TRUE, df |-> <<>>]
             ELSE [raised |-> FALSE, df |-> StepProcess(steps[n], prev.df)]

ColumnsOf(df) == { df.columns[k] : k \in 1..Len(df.columns) }

\* The columns step adds to df.
Creates(step, df) ==
    IF StepRaises(step, df) THEN {}
    ELSE ColumnsOf(StepProcess(step, df)) \ ColumnsOf(df)

\* The columns a step is configured to read.
Reads(step) ==
    CASE step.step_name = "qualifying_time_converter" -> {"q1"}
      [] step.step_name = "numerical_scaler" -> {ScalerColumns[1], ScalerColumns[2]}
      [] step.step_name = "lagged_feature_generator" -> {"q1_seconds", "roundnumber"}
      [] step.step_name = "drop_columns" -> {"q1"}
      [] OTHER -> {}

\* B reads a column that A creates on df.
DependsOn(B, A, df) == Creates(A, df) \cap Reads(B) # {}

\* B, run after A, removes a column A created and B reads, or changes it.
ChangesCreated(B, A, df) ==
    LET a == StepProcess(A, df)
        b == StepProcess(B, a)
    IN  \E c \in Creates(A, df) \cap Reads(B) :
            \/ ~HasColumn(b, c)
            \/ b.values[c] # a.values[c]
            \/ b.dtypes[c] # a.dtypes[c]

\* The step loop of pipeline p is over.
LoopOver(p) ==
    \/ pipe[p].pc \in {"commit", "done", "raised"}
    \/ pipe[p].pc = "steps" /\ pipe[p].k > Len(pipe[p].steps)

\* What the step loop of pipeline p produced.
LoopOutcome(p) ==
    IF pipe[p].pc = "raised" /\ pipe[p].error = "step"
    THEN [raised |-> TRUE, df |-> <<>>]
    ELSE [raised |-> FALSE, df |-> pipe[p].df]

\* C21 as stated: whenever step B reads a column that step A creates, running
\* [A, B] gives another result than running [B, A], and the orchestrator
\* produces the result of the declared order [A, B].
C21_OrderAlwaysMatters ==
    \A p \in Pipelines :
        (LoopOver(p) /\ Len(pipe[p].steps) = 2) =>
            LET A == pipe[p].steps[1]
                B == pipe[p].steps[2]
                raw == RawData(pipe[p].src, pipe[p].year)
            IN  DependsOn(B, A, raw) =>
                    /\ RunChain(<<A, B>>, 2, raw) # RunChain(<<B, A>>, 2, raw)
                    /\ LoopOutcome(p) = RunChain(<<A, B>>, 2, raw)

\* C21 (amended): whenever step B reads a column that step A creates, the
\* orchestrator produces the result of the declared order [A, B], and that
\* result differs from the result of [B, A] if B removes the created column or
\* changes its values.
C21_DeclaredOrderResult ==
    \A p \in Pipelines :
        (LoopOver(p) /\ Len(pipe[p].steps) = 2) =>
            LET A == pipe[p].steps[1]
                B == pipe[p].steps[2]
                raw == RawData(pipe[p].src, pipe[p].year)
            IN  DependsOn(B, A, raw) =>
                    /\ LoopOutcome(p) = RunChain(<<A, B>>, 2, raw)
                    /\ ChangesCreated(B, A, raw) =>
                          RunChain(<<A, B>>, 2, raw) # RunChain(<<B, A>>, 2, raw)

\* The converter followed by the scaler has run on parsable, non-zero times:
\* the scaled q1_seconds is not what the reverse order leaves in the table.
C21_Witness ==
    \E p \in Pipelines :
        /\ pipe[p].pc = "done"
        /\ Len(pipe[p].steps) = 2
        /\ pipe[p].steps[1].step_name = "qualifying_time_converter"
        /\ pipe[p].steps[2].step_name = "numerical_scaler"
        /\ pipe[p].src = 1
        /\ DependsOn(pipe[p].steps[2], pipe[p].steps[1], RawData(1, pipe[p].year))
        /\ ChangesCreated(pipe[p].steps[2], pipe[p].steps[1], RawData(1, pipe[p].year))
        /\ pipe[p].df.values["q1_seconds"] = fit_transform(20 + 1)
        /\ RunChain(<<pipe[p].steps[2], pipe[p].steps[1]>>, 2,
                    RawData(1, pipe[p].year)).df.values["q1_seconds"] = 20 + 1

(***************************************************************************)
(* Single step calls: properties                                           *)
(***************************************************************************)
\* The call has ended and its configuration lacks a required key or refers
\* to a column the table does not have.
Misconfigured ==
    /\ step_call.pc = "called"
    /\ \/ step_call.step.cfg = "no_sort_columns"
       \/ \E c \in ReferencedColumns(step_call.step) : ~HasCol(frame, c)

\* The columns of the table other than those the step refers to are returned
\* as they were.
RestOfTableKept ==
    \A c \in {"q1", "team", "roundnumber", "raceyear"} \ ReferencedColumns(step_call.step) :
        step_call.out.cols[c] = frame.cols[c]

\* C22: a missing required configuration key or a referenced column that the
\* table lacks makes process raise exactly when the step is the Lagged-Feature
\* Generator; every other step logs or skips the absent column and returns
\* the rest of the table.
C22_OnlyLaggedRaises ==
    Misconfigured =>
        /\ step_call.raised # "none"
              <=> step_call.step.step_name = "lagged_feature_generator"
        /\ step_call.raised = "none" => RestOfTableKept

\* The converter was called on a table that has the q1 column.
ConverterCalled ==
    /\ step_call.pc = "called"
    /\ step_call.step.step_name = "qualifying_time_converter"
    /\ HasCol(frame, "q1")

\* C23: for every table with the configured qualifying column q1 the
\* converter does not raise, returns both q1_seconds and q1_missing, and
\* q1_missing is 1 exactly in the rows whose original value is empty, the zero
\* time "0:00.000" or unparsable, and 0 in all other rows.
C23_MissingIndicator ==
    ConverterCalled =>
        /\ step_call.raised = "none"
        /\ HasCol(step_call.out, "q1_seconds")
        /\ HasCol(step_call.out, "q1_missing")
        /\ \A k \in 1..frame.n :
              step_call.out.cols["q1_missing"].cells[k] =
                  IF \/ frame.cols["q1"].cells[k] \in {"", "0:00.000"}
                     \/ ~MatchesFormat(frame.cols["q1"].cells[k])
                  THEN 1 ELSE 0

\* The fill_mode cleaner was called on a table whose team column is all null.
ModeFillOfAllNull ==
    /\ step_call.pc = "called"
    /\ step_call.step = [step_name |-> "null_value_cleaner", cfg |-> "fill_mode"]
    /\ HasCol(frame, "team")
    /\ \A k \in 1..frame.n : frame.cols["team"].cells[k] = NaN

\* C24 as stated: fill_mode on a named column whose values are all null does
\* not raise and fills every value with "UNKNOWN", whatever the column's type.
C24_AllNullFilled ==
    ModeFillOfAllNull =>
        /\ step_call.raised = "none"
        /\ \A k \in 1..frame.n : step_call.out.cols["team"].cells[k] = "UNKNOWN"

\* C24 (amended): fill_mode on a named column whose values are all null does
\* not raise; it fills every value with "UNKNOWN" if the column is of object
\* (string) type, and returns a numeric column as it is, all null.
C24_AllNullObjectFilled ==
    ModeFillOfAllNull =>
        /\ step_call.raised = "none"
        /\ frame.cols["team"].dtype = "object" =>
              \A k \in 1..frame.n : step_call.out.cols["team"].cells[k] = "UNKNOWN"
        /\ IsNumeric(frame.cols["team"]) => step_call.out = frame

\* An all-null string column of two rows has come back as "UNKNOWN" twice.
C24_Witness ==
    /\ ModeFillOfAllNull
    /\ frame.n = 2
    /\ frame.cols["team"].dtype = "object"
    /\ step_call.raised = "none"
    /\ step_call.out.cols["team"].cells = <<"UNKNOWN", "UNKNOWN">>

(***************************************************************************)
(* Training lifecycle: metric facts of an epoch                            *)
(***************************************************************************)
\* The rows a step appends to training_metrics.
AppendedMetrics ==
    SubSeq(training_metrics', Len(training_metrics) + 1, Len(training_metrics'))

\* Invocation i completes an epoch end in this step: its callback returned.
EpochEndReturns(i) ==
    /\ inv[i].pc = "fit_loop"
    /\ inv[i].variant # "legacy"
    /\ inv'[i].pc = "fit_loop"
    /\ inv'[i].epochs_run = inv[i].epochs_run + 1

\* C25: at an epoch end exactly one metric fact is appended per reported
\* metric, for the run and the epoch, with split_type VALIDATION if the
\* reported name starts with "val_" and TRAIN otherwise.
C25_OneFactPerMetric ==
    [][\A i \in Invocations :
          EpochEndReturns(i) =>
              LET logs == EpochLogs(inv[i].metrics_names)
              IN  /\ Len(AppendedMetrics) = Len(logs)
                  /\ \A k \in 1..Len(logs) :
                        /\ AppendedMetrics[k].run_id = inv[i].run_id
                        /\ AppendedMetrics[k].epoch = inv[i].epochs_run
                        /\ AppendedMetrics[k].split_type =
                              IF logs[k][1] = "val_" THEN "VALIDATION" ELSE "TRAIN"]_vars

\* A run of a model with two metrics has the four facts of its first epoch.
C25_Witness ==
    \E i \in Invocations :
        /\ inv[i].pc = "fit_loop"
        /\ inv[i].epochs_run = 1
        /\ inv[i].metrics_names = <<"loss", "mae">>
        /\ Len(training_metrics) = 4
        /\ \A k \in 1..4 :
              /\ training_metrics[k].run_id = inv[i].run_id
              /\ training_metrics[k].epoch = 0
              /\ training_metrics[k].split_type = IF k <= 2 THEN "TRAIN" ELSE "VALIDATION"

(***************************************************************************)
(* Configuration management: properties                                    *)
(***************************************************************************)
\* C26: get_config(name) returns the loaded configuration mapping for each of
\* the names "model", "training" and "pipeline", and a repeated call with the
\* same name, without reload, returns the configuration already cached.
C26_GetConfigReturns ==
    [][\A name \in {"model", "training", "pipeline"} :
          (config_call'.pc = "called" /\ config_call'.name = name
             /\ config_call' # config_call) =>
              /\ config_call'.raised = "none"
              /\ config_call'.value \in {"json_1", "json_2"}
              /\ (name \in DOMAIN Config_configs /\ ~config_call'.reload) =>
                    config_call'.value = Config_configs[name]]_vars

(***************************************************************************)
(* Inference: fitted state of the encoder and scaler steps                 *)
(***************************************************************************)
\* A step that is a call of predict with apply_pipeline on the predictor.
PredictCall ==
    /\ predictor.pc \in {"loaded", "not_found", "transformed"}
    /\ predictor'.pc = "transformed"
    /\ predictor'.predicts = predictor.predicts + 1

\* The steps of the predictor's pipeline whose process predict calls.
ProcessedSteps ==
    { k \in 1..Len(predictor.steps) :
        /\ predictor.steps[k].name \in InferenceSteps
        /\ predictor.steps[k].step_name \in StatefulSteps }

\* C27: the fitted state of an encoder or scaler step is established by its
\* first process call; a process call made when fitted state is already
\* present, from an earlier process call or from load, leaves that state as
\* it is (and transforms with it).
C27_FittedStateKept ==
    [][PredictCall =>
          \A k \in ProcessedSteps :
              IF predictor.fitted[k] = {}
              THEN predictor'.fitted[k] =
                      StepFit(predictor.steps[k],
                              PredictApply(predictor.steps, predictor.fitted,
                                           predictor.predicts, k - 1,
                                           RawData(predictor'.src, None)).df)
              ELSE predictor'.fitted[k] = predictor.fitted[k]]_vars

(***************************************************************************)
(* Training lifecycle: finalization order                                  *)
(***************************************************************************)
\* C28: a run whose status is COMPLETED has its final model artifact
\* persisted and its model-metadata record updated with the final
\* configuration and tags: COMPLETED is never committed before the model save
\* and the metadata update have succeeded.
C28_CompletedAfterModelSaved ==
    \A i \in Invocations :
        (HasRun(i) /\ training_runs[inv[i].run_id].status = "COMPLETED") =>
            LET model_id == training_runs[inv[i].run_id].model_id
            IN  /\ model_id \in 1..Len(model_metadata)
                /\ ModelFile(model_metadata[model_id].version) \in model_files
                /\ model_metadata[model_id].tags = "final"

(***************************************************************************)
(* Data pipeline: the record and the files it stands for                   *)
(***************************************************************************)
\* C29: whenever a dataset-version record exists for (dataset_name, version),
\* the artifact manifest of that version exists, and whenever the record's
\* data_path is not empty a checkpoint file exists at that path.
C29_RecordAfterFiles ==
    \A k \in 1..Len(dataset_versions) :
        /\ HasFile(dataset_versions[k].version, "manifest.json")
        /\ dataset_versions[k].data_path # <<>> =>
              CheckpointExists(dataset_versions[k].data_path)

(***************************************************************************)
(* Training on new data: the recorded data version                         *)
(***************************************************************************)
\* C30: when the trainer processes new data, the data_version it records for
\* the model is the version under which that process run saved its checkpoint
\* and artifacts, so that load_checkpoint and load_artifacts with the
\* recorded version find them.
C30_RecordedVersionIsSaved ==
    \A p \in Pipelines :
        pipe[p].trainer_data_version # <<>> =>
            /\ pipe[p].trainer_data_version = pipe[p].version
            /\ HasFile(pipe[p].trainer_data_version, "manifest.json")
            /\ "checkpoint" \in pipe[p].writes =>
                  CheckpointExists(_generate_checkpoint_path(
                      DatasetName(pipe[p].year), pipe[p].trainer_data_version,
                      config.checkpoint_format))
====
